---- MODULE Spec2Model ----
(***************************************************************************)
(* NHS TAC analyst scripts: workbook ingestion (build_canonical), the      *)
(* subcode dimension builder, the enrichment join and the reporting        *)
(* scripts, modelled as runs of scripts over a file system and an embedded *)
(* analytical database.  Text is modelled character by character so that   *)
(* normalisation, regular expressions and sorting are computed.            *)
(***************************************************************************)
EXTENDS Integers, Sequences, FiniteSets, TLC

(***************************************************************************)
(* Text: a string is a sequence of one-character strings.                  *)
(***************************************************************************)
\* characters in ASCII order; CharCode gives the relative code point
Chars ==
  << " ", "%", "(", ")", "-", ".", "/",
     "0", "1", "2", "3", "4", "5", "6", "7", "8", "9",
     "A", "B", "C", "D", "E", "F", "G", "H", "I", "J", "K", "L", "M",
     "N", "O", "P", "Q", "R", "S", "T", "U", "V", "W", "X", "Y", "Z",
     "_",
     "a", "b", "c", "d", "e", "f", "g", "h", "i", "j", "k", "l", "m",
     "n", "o", "p", "q", "r", "s", "t", "u", "v", "w", "x", "y", "z" >>

CharSet == {Chars[i] : i \in 1..Len(Chars)}

CharCodes == [c \in CharSet |-> CHOOSE i \in 1..Len(Chars) : Chars[i] = c]

CharCode(c) == CharCodes[c]

\* a sequence given by a rule, evaluated once into a tuple
Concrete(seq) == seq \o << >>

Digits == {"0", "1", "2", "3", "4", "5", "6", "7", "8", "9"}

UpperLetters ==
  {"A", "B", "C", "D", "E", "F", "G", "H", "I", "J", "K", "L", "M",
   "N", "O", "P", "Q", "R", "S", "T", "U", "V", "W", "X", "Y", "Z"}

LowerLetters ==
  {"a", "b", "c", "d", "e", "f", "g", "h", "i", "j", "k", "l", "m",
   "n", "o", "p", "q", "r", "s", "t", "u", "v", "w", "x", "y", "z"}

\* str.lower() / SQL lower() on one ASCII character
LowerChars ==
  [c \in CharSet |-> IF c \in UpperLetters THEN Chars[CharCodes[c] + 27] ELSE c]

LowerChar(c) == LowerChars[c]

\* str.upper() on one ASCII character
UpperChars ==
  [c \in CharSet |-> IF c \in LowerLetters THEN Chars[CharCodes[c] - 27] ELSE c]

UpperChar(c) == UpperChars[c]

Lower(s) == Concrete([i \in 1..Len(s) |-> LowerChar(s[i])])

Upper(s) == Concrete([i \in 1..Len(s) |-> UpperChar(s[i])])

\* str.strip(): leading and trailing white space removed
RECURSIVE LStrip(_)
LStrip(s) == IF s # << >> /\ s[1] = " " THEN LStrip(Tail(s)) ELSE s

RECURSIVE RStrip(_)
RStrip(s) ==
  IF s # << >> /\ s[Len(s)] = " " THEN RStrip(SubSeq(s, 1, Len(s) - 1)) ELSE s

Strip(s) == RStrip(LStrip(s))

IsAlnumLower(c) == c \in LowerLetters \cup Digits

\* the [^a-z0-9]+ -> '' substitution shared by the Python and SQL normalisers
DropNonAlnum(s) == SelectSeq(s, IsAlnumLower)

\* norm / norm_sheet: re.sub(r"[^a-z0-9]+", "", str(s).strip().lower())
norm(s) == DropNonAlnum(Lower(Strip(s)))

\* a worksheet key that is only lower-cased
ws_key_lowercase_only(s) == Lower(s)

\* SQL: regexp_replace(lower(WorkSheetName), '[^a-z0-9]+', '', 'g')
ws_key(s) == DropNonAlnum(Lower(s))

\* lexicographic order of strings by code point (Python sorted, SQL MIN/MAX)
StrLess(a, b) ==
  \E k \in 1..(Len(a) + 1) :
     /\ k <= Len(b)
     /\ \A j \in 1..(k - 1) : a[j] = b[j]
     /\ (k = Len(a) + 1 \/ CharCode(a[k]) < CharCode(b[k]))

StrLeq(a, b) == a = b \/ StrLess(a, b)

HasPrefix(s, p) == Len(p) <= Len(s) /\ SubSeq(s, 1, Len(p)) = p

DropPrefix(s, n) == SubSeq(s, n + 1, Len(s))

\* substring test (Python "k in s", SQL LIKE '%k%')
Contains(s, k) ==
  \E i \in 0..(Len(s) - Len(k)) : SubSeq(s, i + 1, i + Len(k)) = k

(***************************************************************************)
(* Cells of a spreadsheet or data frame: a number, a text or empty (NaN /  *)
(* SQL NULL).  All three share one record shape.                           *)
(***************************************************************************)
Num(n) == [k |-> "num", n |-> n, s |-> << >>]

Txt(s) == [k |-> "str", n |-> 0, s |-> s]

NaN == [k |-> "nan", n |-> 0, s |-> << >>]

DigitVal(c) == CharCode(c) - CharCode("0")

RECURSIVE DigitsVal(_)
DigitsVal(s) ==
  IF s = << >> THEN 0
  ELSE 10 * DigitsVal(SubSeq(s, 1, Len(s) - 1)) + DigitVal(s[Len(s)])

AllDigits(s) == s # << >> /\ \A i \in 1..Len(s) : s[i] \in Digits

\* a conversion that leaves what it cannot parse as it is (errors="ignore")
to_numeric_ignore(c) ==
  IF c.k = "str" /\ ~AllDigits(Strip(c.s)) THEN c
  ELSE IF c.k = "str" THEN Num(DigitsVal(Strip(c.s)))
  ELSE c

\* pd.to_numeric(x, errors="coerce") on one cell: numbers stay, numeric text
\* (optionally signed, surrounding blanks ignored) is parsed, the rest is NaN
to_numeric(c) ==
  IF c.k = "num" THEN c
  ELSE IF c.k = "nan" THEN NaN
  ELSE LET t == Strip(c.s)
       IN  IF AllDigits(t) THEN Num(DigitsVal(t))
           ELSE IF Len(t) > 1 /\ t[1] = "-" /\ AllDigits(Tail(t))
                THEN Num(0 - DigitsVal(Tail(t)))
           ELSE NaN

(***************************************************************************)
(* build_canonical.py                                                      *)
(***************************************************************************)
s_TAC_ == << "T", "A", "C", "_" >>

s_xlsx == << ".", "x", "l", "s", "x" >>

IsFyText(t) ==
  /\ Len(t) = 7
  /\ \A i \in {1, 2, 3, 4, 6, 7} : t[i] \in Digits
  /\ t[5] = "-"

\* a pattern without the end anchor and the extension: whatever follows the
\* year is accepted
parse_metadata_unanchored(filename) ==
  LET kinds == { << "T", "r", "u", "s", "t", "s" >>, << "F", "T", "s" >> }
      hit   == { k \in kinds :
                   /\ HasPrefix(filename, s_TAC_ \o k \o << "_" >>)
                   /\ LET rest == DropPrefix(filename, Len(k) + 5)
                      IN  /\ Len(rest) >= 7
                          /\ IsFyText(SubSeq(rest, 1, 7)) }
  IN  IF hit = {} THEN [ok |-> FALSE, sector |-> << >>, fy |-> << >>]
      ELSE LET k == CHOOSE k \in hit : TRUE
           IN  [ok     |-> TRUE,
                sector |-> IF k = << "T", "r", "u", "s", "t", "s" >> THEN << "T", "r", "u", "s", "t" >> ELSE << "F", "T" >>,
                fy     |-> SubSeq(filename, Len(k) + 6, Len(k) + 12)]

\* re.match(r"TAC_(Trusts|FTs)_(\d{4}-\d{2})\.xlsx$", filename)
parse_metadata(filename) ==
  LET kinds == { << "T", "r", "u", "s", "t", "s" >>, << "F", "T", "s" >> }
      hit   == { k \in kinds :
                   /\ HasPrefix(filename, s_TAC_ \o k \o << "_" >>)
                   /\ LET rest == DropPrefix(filename, Len(k) + 5)
                      IN  /\ Len(rest) = 12
                          /\ IsFyText(SubSeq(rest, 1, 7))
                          /\ SubSeq(rest, 8, 12) = s_xlsx }
  IN  IF hit = {} THEN [ok |-> FALSE, sector |-> << >>, fy |-> << >>]
      ELSE LET k == CHOOSE k \in hit : TRUE
           IN  [ok     |-> TRUE,
                sector |-> IF k = << "T", "r", "u", "s", "t", "s" >> THEN << "T", "r", "u", "s", "t" >> ELSE << "F", "T" >>,
                fy     |-> SubSeq(filename, Len(k) + 6, Len(k) + 12)]

\* the least element of a set of positions, 0 when it is empty
Least(hits) ==
  IF hits = {} THEN 0 ELSE CHOOSE i \in hits : \A j \in hits : i <= j

\* index of the first element of a sequence satisfying a test, 0 when none
FirstIndex(seq, Test(_)) == Least({i \in 1..Len(seq) : Test(seq[i])})

\* col_lookup = {norm(c): c for c in df.columns}, kept as the normalised
\* name of each column position
col_lookup(columns) == Concrete([i \in 1..Len(columns) |-> norm(columns[i])])

\* col_lookup[k]: a later column with the same normalised name replaces an
\* earlier one (dict comprehension); the column is identified by position
lookup(keys, k) ==
  CHOOSE i \in 1..Len(keys) :
     /\ keys[i] = k
     /\ \A j \in (i + 1)..Len(keys) : keys[j] # k

\* [norm(c) for c in candidates]
norm_all(candidates) ==
  Concrete([i \in 1..Len(candidates) |-> norm(candidates[i])])

\* next((col_lookup[norm(c)] for c in candidates if norm(c) in col_lookup), None)
\* as a column position, 0 for None; cand_keys are the normalised candidates
first_present(keys, cand_keys) ==
  Least({c \in 1..Len(cand_keys) : \E i \in 1..Len(keys) : keys[i] = cand_keys[c]})

\* the leftmost column whose normalised header is any of the candidates
pick_leftmost(keys, cand_keys) ==
  Least({i \in 1..Len(keys) : \E c \in 1..Len(cand_keys) : keys[i] = cand_keys[c]})

picked(keys, cand_keys, first) ==
  IF first = 0 THEN 0 ELSE lookup(keys, cand_keys[first])

pick(keys, cand_keys) == picked(keys, cand_keys, first_present(keys, cand_keys))

stable_required_norm ==
  << << "w", "o", "r", "k", "s", "h", "e", "e", "t", "n", "a", "m", "e" >>,
     << "t", "a", "b", "l", "e", "i", "d" >>,
     << "m", "a", "i", "n", "c", "o", "d", "e" >>,
     << "r", "o", "w", "n", "u", "m", "b", "e", "r" >>,
     << "s", "u", "b", "c", "o", "d", "e" >> >>

org_candidates ==
  << << "o", "r", "g", "a", "n", "i", "s", "a", "t", "i", "o", "n", "n", "a", "m", "e" >>,
     << "o", "r", "g", "n", "a", "m", "e" >>,
     << "p", "r", "o", "v", "i", "d", "e", "r", "n", "a", "m", "e" >>,
     << "o", "r", "g", "a", "n", "i", "s", "a", "t", "i", "o", "n" >> >>

amount_candidates ==
  << << "v", "a", "l", "u", "e", "n", "u", "m", "b", "e", "r" >>,
     << "t", "o", "t", "a", "l" >>,
     << "a", "m", "o", "u", "n", "t" >>,
     << "v", "a", "l", "u", "e", "n", "u", "m", "e", "r", "i", "c" >>,
     << "v", "a", "l", "u", "e" >> >>

org_keys == norm_all(org_candidates)

amount_keys == norm_all(amount_candidates)

\* canonical column names, in the order of `required`
required ==
  << << "o", "r", "g", "_", "n", "a", "m", "e", "_", "r", "a", "w" >>,
     << "W", "o", "r", "k", "S", "h", "e", "e", "t", "N", "a", "m", "e" >>,
     << "T", "a", "b", "l", "e", "I", "D" >>,
     << "M", "a", "i", "n", "C", "o", "d", "e" >>,
     << "R", "o", "w", "N", "u", "m", "b", "e", "r" >>,
     << "S", "u", "b", "C", "o", "d", "e" >>,
     << "a", "m", "o", "u", "n", "t" >> >>

\* canonical name -> the position of the detected source column
detect(keys) ==
  << pick(keys, org_keys),
     pick(keys, << stable_required_norm[1] >>),
     pick(keys, << stable_required_norm[2] >>),
     pick(keys, << stable_required_norm[3] >>),
     pick(keys, << stable_required_norm[4] >>),
     pick(keys, << stable_required_norm[5] >>),
     pick(keys, amount_keys) >>

detected(columns) == detect(col_lookup(columns))

\* df.rename(columns={...}): the column names after renaming
renamed(columns, det) ==
  Concrete([i \in 1..Len(columns) |->
              IF \E f \in 1..7 : det[f] = i
              THEN required[CHOOSE f \in 1..7 : det[f] = i]
              ELSE columns[i]])

\* first sheet whose normalised name is that of "All data", 0 when none
target == norm(<< "A", "l", "l", " ", "d", "a", "t", "a" >>)

\* a selection that keeps the last qualifying sheet instead of the first
all_data_sheet_last(sheets) ==
  LET hits == {i \in 1..Len(sheets) : norm(sheets[i].name) = target}
  IN  IF hits = {} THEN 0 ELSE CHOOSE i \in hits : \A j \in hits : j <= i

all_data_sheet(sheets) ==
  Least({i \in 1..Len(sheets) : norm(sheets[i].name) = target})

\* the rest of load_all_data once the columns are detected.  A sheet that
\* already holds a column spelled exactly like a canonical name next to the
\* detected one ends with two columns of that name, which fails in
\* to_numeric or in to_parquet before anything is written.
extract(sh, det, ren) ==
  IF \E f \in 2..6 : det[f] = 0
    THEN [ok |-> FALSE, error |-> "missing_stable_columns", rows |-> << >>]
  ELSE IF det[1] = 0 \/ det[7] = 0
    THEN [ok |-> FALSE, error |-> "no_org_or_value_column", rows |-> << >>]
  ELSE IF \E f \in 1..7 :
            Cardinality({i \in 1..Len(ren) : ren[i] = required[f]}) > 1
    THEN [ok |-> FALSE, error |-> "duplicate_column", rows |-> << >>]
  ELSE [ok |-> TRUE, error |-> "",
        rows |-> Concrete([r \in 1..Len(sh.rows) |->
           [org_name_raw  |-> sh.rows[r][det[1]],
            WorkSheetName |-> sh.rows[r][det[2]],
            TableID       |-> sh.rows[r][det[3]],
            MainCode      |-> sh.rows[r][det[4]],
            RowNumber     |-> sh.rows[r][det[5]],
            SubCode       |-> sh.rows[r][det[6]],
            amount        |-> to_numeric(sh.rows[r][det[7]])]])]

\* pd.read_excel of the chosen sheet, then the column detection
read_sheet(sh, det) == extract(sh, det, renamed(sh.columns, det))

\* a loader for which a workbook without an "All data" sheet is empty
load_sheet_skipping(sheets, si) ==
  IF si = 0 THEN [ok |-> TRUE, error |-> "", rows |-> << >>]
  ELSE read_sheet(sheets[si], detected(sheets[si].columns))

\* load_all_data: the extract of one workbook, or the error it raises
load_sheet(sheets, si) ==
  IF si = 0 THEN [ok |-> FALSE, error |-> "no_all_data_sheet", rows |-> << >>]
  ELSE read_sheet(sheets[si], detected(sheets[si].columns))

load_all_data(wb) == load_sheet(wb.sheets, all_data_sheet(wb.sheets))

(***************************************************************************)
(* State: the working directory and the embedded database.                 *)
(***************************************************************************)
VARIABLES
  raw_dir,                \* Data/raw: set of workbooks [name, sheets]
  ref_dir,                \* Data/reference: set of illustrative workbooks
  activity_dir,           \* Data/activity: set of quarterly bed workbooks
  parquet,                \* Data/canonical/fact_tru_tac.parquet
  fact_tru_tac,           \* table fact_tru_tac of tru_tac.duckdb
  fact_tru_tac_enriched,  \* table fact_tru_tac_enriched
  views,                  \* which definition each database view has
  mappings,               \* the CSV files under mappings/
  beds_historical_matched, \* Data/analysis/activity_integrated/beds_historical_matched.csv
  scan_report,            \* what debug_illustrative_scan printed last
  pfi_wide,               \* the frame pfi_wide of the last analyze_pfi_comprehensive run
  top_unmapped_csv,       \* outputs/top_unmapped_subcodes_by_abs_amount.csv
  artefacts,              \* report files and directories that exist
  last_run                \* the script that ran last and how it ended

vars ==
  << raw_dir, ref_dir, activity_dir, parquet, fact_tru_tac, fact_tru_tac_enriched,
     views, mappings, beds_historical_matched, scan_report, pfi_wide,
     top_unmapped_csv, artefacts, last_run >>

\* a file or table that does not exist
Absent == [exists |-> FALSE, rows |-> << >>]

Present(rows) == [exists |-> TRUE, rows |-> rows]

Ran(script, error) ==
  [script |-> script,
   status |-> IF error = "" THEN "ok" ELSE "error",
   error  |-> error]

HasSuffix(s, p) ==
  Len(p) <= Len(s) /\ SubSeq(s, Len(s) - Len(p) + 1, Len(s)) = p

\* RAW_DIR.glob("TAC_*.xlsx")
glob_TAC(name) ==
  HasPrefix(name, s_TAC_) /\ HasSuffix(name, s_xlsx) /\ Len(name) >= 9

\* the files in descending order of name
RECURSIVE sorted_descending(_)
sorted_descending(files) ==
  IF files = {} THEN << >>
  ELSE LET first == CHOOSE f \in files :
                       \A g \in files : StrLeq(g.name, f.name)
       IN  << first >> \o sorted_descending(files \ {first})

\* sorted(paths): the files of a set in ascending order of name
RECURSIVE sorted(_)
sorted(files) ==
  IF files = {} THEN << >>
  ELSE LET first == CHOOSE f \in files :
                       \A g \in files : StrLeq(f.name, g.name)
       IN  << first >> \o sorted(files \ {first})

\* df["fy"] = fy ... df["schema_version"] = fy
add_columns(name, meta, df) ==
  [error |-> df.error,
   rows  |-> Concrete([r \in 1..Len(df.rows) |->
     [org_name_raw   |-> df.rows[r].org_name_raw,
      WorkSheetName  |-> df.rows[r].WorkSheetName,
      TableID        |-> df.rows[r].TableID,
      MainCode       |-> df.rows[r].MainCode,
      RowNumber      |-> df.rows[r].RowNumber,
      SubCode        |-> df.rows[r].SubCode,
      amount         |-> df.rows[r].amount,
      fy             |-> meta.fy,
      sector         |-> meta.sector,
      source_file    |-> name,
      schema_version |-> meta.fy]])]

\* the body of the loop of main for one workbook: parse the name, extract,
\* add the columns fy, sector, source_file and schema_version
frame_of(wb, meta) ==
  IF ~meta.ok THEN [error |-> "unexpected_filename", rows |-> << >>]
  ELSE add_columns(wb.name, meta, load_all_data(wb))

frame(wb) == frame_of(wb, parse_metadata(wb.name))

\* pd.concat(all_frames, ignore_index=True)
RECURSIVE concat(_)
concat(frames) ==
  IF frames = << >> THEN << >>
  ELSE Head(frames).rows \o concat(Tail(frames))

\* fact.to_parquet: a column holding both numbers and text has no Arrow type
\* and the conversion raises before the file is opened
ObjectColumns ==
  {"org_name_raw", "WorkSheetName", "TableID", "MainCode", "RowNumber",
   "SubCode"}

parquet_ok(rows) ==
  \A col \in ObjectColumns :
     ~ (/\ \E r \in 1..Len(rows) : rows[r][col].k = "num"
        /\ \E r \in 1..Len(rows) : rows[r][col].k = "str")

\* the loop of main over the sorted files
all_frames(files) == Concrete([i \in 1..Len(files) |-> frame(files[i])])

\* what main does with the frames: the loop stops at the first workbook that
\* raises; otherwise the frames are concatenated and written
outcome(frames, bad) ==
  IF frames = << >> THEN [error |-> "no_files", fact |-> << >>]
  ELSE IF bad # 0 THEN [error |-> frames[bad].error, fact |-> << >>]
  ELSE IF ~parquet_ok(concat(frames))
    THEN [error |-> "arrow_type_error", fact |-> << >>]
  ELSE [error |-> "", fact |-> concat(frames)]

Raises(fr) == fr.error # ""

main_of(frames) == outcome(frames, FirstIndex(frames, Raises))

\* build_canonical.main: what the run raises ("" when it completes) and the
\* fact frame it builds
build_canonical ==
  main_of(all_frames(sorted({wb \in raw_dir : glob_TAC(wb.name)})))

\* a build that replaces its outputs with whatever it has, also when a
\* workbook was rejected
BuildCanonicalEager ==
  \E run \in {build_canonical} :
      /\ last_run' = Ran("build_canonical", run.error)
      /\ parquet' = Present(run.fact)
      /\ fact_tru_tac' = Present(run.fact)
      /\ UNCHANGED << top_unmapped_csv, pfi_wide, scan_report, raw_dir, ref_dir, activity_dir, beds_historical_matched, fact_tru_tac_enriched, views,
                      mappings, artefacts >>

\* python src/build_canonical.py
BuildCanonical ==
  \E run \in {build_canonical} :
      /\ last_run' = Ran("build_canonical", run.error)
      /\ IF run.error = ""
           THEN /\ parquet' = Present(run.fact)
                /\ fact_tru_tac' = Present(run.fact)
           ELSE UNCHANGED << parquet, fact_tru_tac >>
      /\ UNCHANGED << top_unmapped_csv, pfi_wide, scan_report, raw_dir, ref_dir, activity_dir, beds_historical_matched, fact_tru_tac_enriched, views,
                      mappings, artefacts >>

(***************************************************************************)
(* build_dim_tac_lines_from_mapping.py                                     *)
(***************************************************************************)
keywords ==
  << << "m", "a", "p", "p", "i", "n", "g" >>,
     << "s", "c", "h", "e", "d", "u", "l", "e" >>,
     << "l", "o", "o", "k", "u", "p" >>,
     << "r", "e", "f", "e", "r", "e", "n", "c", "e" >>,
     << "c", "o", "d", "e" >> >>

kw == norm_all(keywords)

\* score = sum(1 for k in kw if k in ns)
sheet_score(name) ==
  Cardinality({k \in 1..Len(kw) : Contains(norm(name), kw[k])})

\* scored.sort(reverse=True); scored[0]: the highest score, the greatest
\* sheet name among equal scores; 0 when no sheet scores (ValueError)
best_scored(sheets, scored) ==
  IF scored = {} THEN 0
  ELSE CHOOSE i \in scored : \A j \in scored :
         \/ sheet_score(sheets[j].name) < sheet_score(sheets[i].name)
         \/ /\ sheet_score(sheets[j].name) = sheet_score(sheets[i].name)
            /\ StrLeq(sheets[j].name, sheets[i].name)

find_mapping_sheet(sheets) ==
  best_scored(sheets, {i \in 1..Len(sheets) : sheet_score(sheets[i].name) > 0})

table_candidates == 
  << << "t", "a", "b", "l", "e", "i", "d" >>,
     << "t", "a", "b", "l", "e" >>,
     << "t", "a", "b", "l", "e", "_", "i", "d" >> >>

main_candidates == 
  << << "m", "a", "i", "n", "c", "o", "d", "e" >>,
     << "m", "a", "i", "n", " ", "c", "o", "d", "e" >>,
     << "m", "a", "i", "n", "_", "c", "o", "d", "e" >> >>

sub_candidates == 
  << << "s", "u", "b", "c", "o", "d", "e" >>,
     << "s", "u", "b", " ", "c", "o", "d", "e" >>,
     << "s", "u", "b", "_", "c", "o", "d", "e" >> >>

row_candidates ==
  << << "r", "o", "w", "n", "u", "m", "b", "e", "r" >>,
     << "r", "o", "w", " ", "n", "u", "m", "b", "e", "r" >>,
     << "r", "o", "w" >>,
     << "r", "o", "w", "n", "o" >>,
     << "r", "o", "w", "_", "n", "o" >> >>

label_candidates ==
  << << "d", "e", "s", "c", "r", "i", "p", "t", "i", "o", "n" >>,
     << "l", "i", "n", "e", " ", "d", "e", "s", "c", "r", "i", "p", "t", "i", "o", "n" >>,
     << "r", "o", "w", " ", "d", "e", "s", "c", "r", "i", "p", "t", "i", "o", "n" >>,
     << "n", "a", "r", "r", "a", "t", "i", "v", "e" >>,
     << "l", "a", "b", "e", "l" >>,
     << "n", "a", "m", "e" >> >>

table_keys == norm_all(table_candidates)

main_keys == norm_all(main_candidates)

sub_keys == norm_all(sub_candidates)

row_keys == norm_all(row_candidates)

label_keys == norm_all(label_candidates)

\* table_col, main_col, sub_col, row_col, label_col as column positions
mapping_columns(keys) ==
  << pick(keys, table_keys), pick(keys, main_keys), pick(keys, sub_keys),
     pick(keys, row_keys), pick(keys, label_keys) >>

RECURSIVE NatToStr(_)
NatToStr(n) ==
  IF n < 10 THEN << Chars[CharCode("0") + n] >>
  ELSE NatToStr(n \div 10) \o << Chars[CharCode("0") + (n % 10)] >>

\* Series.astype(str) on one cell
astype_str(c) ==
  IF c.k = "str" THEN c.s
  ELSE IF c.k = "nan" THEN << "n", "a", "n" >>
  ELSE IF c.n < 0 THEN << "-" >> \o NatToStr(0 - c.n)
  ELSE NatToStr(c.n)

\* the rows of standardise_mapping_columns before the RowNumber filter
standard_rows(sh, mc) ==
  Concrete([r \in 1..Len(sh.rows) |->
     [TableID    |-> sh.rows[r][mc[1]],
      MainCode   |-> sh.rows[r][mc[2]],
      SubCode    |-> sh.rows[r][mc[3]],
      RowNumber  |-> to_numeric(sh.rows[r][mc[4]]),
      line_label |-> IF mc[5] = 0 THEN << >> ELSE astype_str(sh.rows[r][mc[5]])]])

HasRowNumber(row) == row.RowNumber.k = "num"

\* standardise_mapping_columns: ValueError when a required column is missing,
\* else the four key columns and the label, rows without a numeric RowNumber
\* dropped
standardise(sh, mc) ==
  IF \E f \in 1..4 : mc[f] = 0
    THEN [error |-> "mapping_missing_columns", rows |-> << >>]
  ELSE [error |-> "", rows |-> SelectSeq(standard_rows(sh, mc), HasRowNumber)]

standardise_mapping_columns(sh) ==
  standardise(sh, mapping_columns(col_lookup(sh.columns)))

\* re.match(r"TAC_FTs_(\d{4}-\d{2})\.xlsx$", filename)
parse_fy(filename) ==
  IF /\ Len(filename) = 20
     /\ HasPrefix(filename, << "T", "A", "C", "_", "F", "T", "s", "_" >>)
     /\ IsFyText(SubSeq(filename, 9, 15))
     /\ HasSuffix(filename, s_xlsx)
  THEN SubSeq(filename, 9, 15)
  ELSE << "u", "n", "k", "n", "o", "w", "n" >>

\* fy_sort_key: the leading four digits of "YYYY-YY" as a number, else 0
fy_sort_key(fy) ==
  IF Len(fy) >= 7 /\ IsFyText(SubSeq(fy, 1, 7))
  THEN DigitsVal(SubSeq(fy, 1, 4)) ELSE 0

\* RAW_DIR.glob("TAC_FTs_*.xlsx")
glob_TAC_FTs(name) ==
  HasPrefix(name, << "T", "A", "C", "_", "F", "T", "s", "_" >>) /\ HasSuffix(name, s_xlsx) /\ Len(name) >= 13

\* df_std with fy_source, source_file, source_sheet (and fy_sort, added later
\* by main from fy_source)
mapping_rows(name, sheetname, std) ==
  [error |-> std.error,
   rows  |-> Concrete([r \in 1..Len(std.rows) |->
     [TableID      |-> std.rows[r].TableID,
      MainCode     |-> std.rows[r].MainCode,
      SubCode      |-> std.rows[r].SubCode,
      RowNumber    |-> std.rows[r].RowNumber,
      line_label   |-> std.rows[r].line_label,
      fy_source    |-> parse_fy(name),
      source_file  |-> name,
      source_sheet |-> sheetname,
      fy_sort      |-> fy_sort_key(parse_fy(name))]])]

\* the body of the loop of main for one workbook
mapping_frame_of(wb, si) ==
  IF si = 0 THEN [error |-> "no_mapping_sheet", rows |-> << >>]
  ELSE mapping_rows(wb.name, wb.sheets[si].name,
                    standardise_mapping_columns(wb.sheets[si]))

mapping_frame(wb) == mapping_frame_of(wb, find_mapping_sheet(wb.sheets))

mapping_frames(files) ==
  Concrete([i \in 1..Len(files) |-> mapping_frame(files[i])])

\* order of two cells of one column in sort_values: numbers by value, texts
\* by code point, empty cells last
CellLess(a, b) ==
  \/ a.k = "num" /\ b.k = "num" /\ a.n < b.n
  \/ a.k = "str" /\ b.k = "str" /\ StrLess(a.s, b.s)
  \/ a.k # "nan" /\ b.k = "nan"

LineKey == << "TableID", "MainCode", "SubCode", "RowNumber" >>

\* a before b in sort_values(["TableID","MainCode","SubCode","RowNumber","fy_sort"])
LineLess(a, b) ==
  \/ \E f \in 1..4 :
        /\ \A g \in 1..(f - 1) : a[LineKey[g]] = b[LineKey[g]]
        /\ CellLess(a[LineKey[f]], b[LineKey[f]])
  \/ /\ \A g \in 1..4 : a[LineKey[g]] = b[LineKey[g]]
     /\ a.fy_sort < b.fy_sort

\* stable sort of the frame: repeatedly take the earliest minimal row
RECURSIVE sort_lines(_)
take_first(rows, m) ==
  << rows[m] >> \o
  sort_lines(SubSeq(rows, 1, m - 1) \o SubSeq(rows, m + 1, Len(rows)))

sort_lines(rows) ==
  IF rows = << >> THEN << >>
  ELSE take_first(rows, Least({i \in 1..Len(rows) :
                                 \A j \in 1..Len(rows) : ~LineLess(rows[j], rows[i])}))

SameLine(a, b) == \A g \in 1..4 : a[LineKey[g]] = b[LineKey[g]]

\* groupby(LineKey).tail(1): the last row of each group, in frame order; rows
\* with an empty key cell belong to no group (dropna)
IsTail(rows, i) ==
  /\ \A g \in 1..3 : rows[i][LineKey[g]].k # "nan"
  /\ \A j \in (i + 1)..Len(rows) : ~SameLine(rows[i], rows[j])

RECURSIVE tails_from(_, _)
tails_from(rows, i) ==
  IF i > Len(rows) THEN << >>
  ELSE (IF IsTail(rows, i) THEN << rows[i] >> ELSE << >>) \o tails_from(rows, i + 1)

group_tail(rows) == tails_from(rows, 1)

\* a key column holding both numbers and text cannot be ordered (TypeError)
sortable(rows) ==
  \A g \in 1..3 :
     ~ (/\ \E r \in 1..Len(rows) : rows[r][LineKey[g]].k = "num"
        /\ \E r \in 1..Len(rows) : rows[r][LineKey[g]].k = "str")

\* main after the loop
lines_outcome(frames, bad) ==
  IF bad # 0 THEN [error |-> frames[bad].error, dim |-> << >>]
  ELSE IF frames = << >> THEN [error |-> "no_objects_to_concatenate", dim |-> << >>]
  ELSE IF ~sortable(concat(frames)) THEN [error |-> "type_error", dim |-> << >>]
  ELSE [error |-> "", dim |-> group_tail(sort_lines(concat(frames)))]

lines_main_of(frames) == lines_outcome(frames, FirstIndex(frames, Raises))

build_dim_tac_lines_from_mapping ==
  lines_main_of(mapping_frames(sorted({wb \in raw_dir : glob_TAC_FTs(wb.name)})))

\* python src/build_dim_tac_lines_from_mapping.py
BuildDimLinesFromMapping ==
  \E run \in {build_dim_tac_lines_from_mapping} :
      /\ last_run' = Ran("build_dim_tac_lines_from_mapping", run.error)
      /\ IF run.error = ""
           THEN mappings' = [mappings EXCEPT !.dim_tac_lines = Present(run.dim)]
           ELSE UNCHANGED mappings
      /\ UNCHANGED << top_unmapped_csv, pfi_wide, scan_report, raw_dir, ref_dir, activity_dir, beds_historical_matched, parquet, fact_tru_tac,
                      fact_tru_tac_enriched, views, artefacts >>

(***************************************************************************)
(* build_dim_tac_subcodes_from_illustrative.py                             *)
(***************************************************************************)
\* (20\d{2})-(\d{2}) matches at position i
dash_year_at(s, i) ==
  /\ i + 6 <= Len(s)
  /\ s[i] = "2" /\ s[i + 1] = "0" /\ s[i + 2] \in Digits /\ s[i + 3] \in Digits
  /\ s[i + 4] = "-" /\ s[i + 5] \in Digits /\ s[i + 6] \in Digits

\* (20\d{2})(\d{2}) matches at position i
plain_year_at(s, i) ==
  /\ i + 5 <= Len(s)
  /\ s[i] = "2" /\ s[i + 1] = "0"
  /\ \A j \in 2..5 : s[i + j] \in Digits

\* infer_fy given the start of the leftmost match of each pattern (0: none)
infer_fy_at(name, dash, plain) ==
  IF dash # 0 THEN SubSeq(name, dash, dash + 6)
  ELSE IF plain # 0
    THEN SubSeq(name, plain, plain + 3) \o << "-" >> \o SubSeq(name, plain + 4, plain + 5)
  ELSE IF Contains(name, << "1", "9", "2", "0" >>) THEN << "2", "0", "1", "9", "-", "2", "0" >>
  ELSE << "u", "n", "k", "n", "o", "w", "n" >>

infer_fy(filename) ==
  infer_fy_at(filename,
              Least({i \in 1..Len(filename) : dash_year_at(filename, i)}),
              Least({i \in 1..Len(filename) : plain_year_at(filename, i)}))

\* re.match(r"^[A-Z]{2,5}\d{3,4}[A-Z]?$", v)
is_subcode(v) ==
  \E a \in 2..5 : \E d \in 3..4 :
     /\ Len(v) \in {a + d, a + d + 1}
     /\ \A i \in 1..a : v[i] \in UpperLetters
     /\ \A i \in (a + 1)..(a + d) : v[i] \in Digits
     /\ Len(v) = a + d + 1 => v[Len(v)] \in UpperLetters

\* isinstance(v, str) and the stripped text looks like a subcode
is_code_cell(cell) == cell.k = "str" /\ is_subcode(Strip(cell.s))

\* which cells of a raw sheet hold a subcode
code_cells(grid) ==
  Concrete([r \in 1..Len(grid) |->
     Concrete([c \in 1..Len(grid[r]) |-> is_code_cell(grid[r][c])])])

header_scan_rows == 40

lookahead_rows == 15

min_subcode_hits == 3

Min(a, b) == IF a <= b THEN a ELSE b

\* subcode_hits for header row r and column c (rows and columns from 1)
subcode_hits(codes, r, c) ==
  Cardinality({rr \in (r + 1)..Min(r + lookahead_rows - 1, Len(codes)) : codes[rr][c]})

is_header(codes, r) ==
  \E c \in 1..Len(codes[r]) : subcode_hits(codes, r, c) >= min_subcode_hits

header_at(codes, r) ==
  IF r = 0 THEN [hdr_row |-> 0, subcode_col |-> 0]
  ELSE [hdr_row |-> r,
        subcode_col |-> Least({c \in 1..Len(codes[r]) :
                                 subcode_hits(codes, r, c) >= min_subcode_hits})]

\* find_header_row_and_subcode_col: the first (row, column) in scan order
\* with enough subcodes below it; hdr_row 0 stands for (None, None)
find_header_row_and_subcode_col(codes) ==
  header_at(codes, Least({r \in 1..Min(header_scan_rows, Len(codes)) : is_header(codes, r)}))

\* the first non-empty text cell to the left of the subcode, stripped
label_at(row, j) == IF j = 0 THEN << >> ELSE Strip(row[j].s)

label_of(row, subcode_col) ==
  label_at(row, Least({c \in 1..(subcode_col - 1) :
                          row[c].k = "str" /\ Strip(row[c].s) # << >>}))

record_of(row, subcode_col, sheet, fy, filename) ==
  [fy |-> fy, WorkSheetName |-> sheet, SubCode |-> Strip(row[subcode_col].s),
   subcode_label |-> label_of(row, subcode_col), source_file |-> filename]

Indexes(n) == Concrete([i \in 1..n |-> i])

\* the records list of extract_sheet_subcodes
records(grid, codes, h, sheet, fy, filename) ==
  IF h.hdr_row = 0 THEN << >>
  ELSE LET below == SelectSeq(Indexes(Len(grid)),
                              LAMBDA r : r > h.hdr_row /\ codes[r][h.subcode_col])
       IN  Concrete([k \in 1..Len(below) |->
              record_of(grid[below[k]], h.subcode_col, sheet, fy, filename)])

sheet_records(grid, codes, sheet, fy, filename) ==
  records(grid, codes, find_header_row_and_subcode_col(codes), sheet, fy, filename)

\* extract_sheet_subcodes: the records of one sheet; << >> stands for None
extract_sheet_subcodes(filename, sh, fy) ==
  sheet_records(sh.grid, code_cells(sh.grid), sh.name, fy, filename)

s_tac == << "t", "a", "c" >>

\* REF_DIR.glob("*.xlsx")
glob_xlsx(name) == HasSuffix(name, s_xlsx)

\* the sheets main looks at: str(sheet).strip().lower().startswith("tac")
is_tac_sheet(sh) == HasPrefix(Lower(Strip(sh.name)), s_tac)

\* the inner loop of main over the sheets of one workbook: the records of
\* every TAC sheet that yields some, appended in sheet order
RECURSIVE sheets_records(_, _, _)
sheets_records(filename, sheets, fy) ==
  IF sheets = << >> THEN << >>
  ELSE (IF is_tac_sheet(Head(sheets))
          THEN extract_sheet_subcodes(filename, Head(sheets), fy)
          ELSE << >>)
       \o sheets_records(filename, Tail(sheets), fy)

\* the outer loop of main over the sorted workbooks
RECURSIVE files_records(_)
files_records(files) ==
  IF files = << >> THEN << >>
  ELSE sheets_records(Head(files).name, Head(files).sheets, infer_fy(Head(files).name))
       \o files_records(Tail(files))

DimKey(r) == << r.fy, r.WorkSheetName, r.SubCode >>

\* order of the sort key (fy, WorkSheetName, SubCode)
DimLess(a, b) ==
  \/ StrLess(a.fy, b.fy)
  \/ a.fy = b.fy /\ StrLess(a.WorkSheetName, b.WorkSheetName)
  \/ a.fy = b.fy /\ a.WorkSheetName = b.WorkSheetName /\ StrLess(a.SubCode, b.SubCode)

\* sort_values(["fy", "WorkSheetName", "SubCode"]): rows with equal keys keep
\* their order
RECURSIVE sort_dim(_)
take_least(rows, m) ==
  << rows[m] >> \o sort_dim(SubSeq(rows, 1, m - 1) \o SubSeq(rows, m + 1, Len(rows)))

sort_dim(rows) ==
  IF rows = << >> THEN << >>
  ELSE take_least(rows, Least({i \in 1..Len(rows) :
                                 \A j \in 1..Len(rows) : ~DimLess(rows[j], rows[i])}))

\* drop_duplicates(["fy", "WorkSheetName", "SubCode"], keep="last")
drop_duplicates(rows) ==
  LET kept == SelectSeq(Indexes(Len(rows)),
                        LAMBDA i : \A j \in (i + 1)..Len(rows) :
                                      DimKey(rows[j]) # DimKey(rows[i]))
  IN  Concrete([k \in 1..Len(kept) |-> rows[kept[k]]])

\* main after the loops: raise when nothing was extracted, else sort,
\* deduplicate and write
dim_outcome(recs) ==
  IF recs = << >> THEN [error |-> "no_subcode_mappings", dim |-> << >>]
  ELSE [error |-> "", dim |-> drop_duplicates(sort_dim(recs))]

build_dim_tac_subcodes_from_illustrative ==
  dim_outcome(files_records(sorted({wb \in ref_dir : glob_xlsx(wb.name)})))

\* python src/build_dim_tac_subcodes_from_illustrative.py
BuildDimSubcodes ==
  \E run \in {build_dim_tac_subcodes_from_illustrative} :
      /\ last_run' = Ran("build_dim_tac_subcodes_from_illustrative", run.error)
      /\ IF run.error = ""
           THEN mappings' = [mappings EXCEPT !.dim_tac_subcodes_by_year = Present(run.dim)]
           ELSE UNCHANGED mappings
      /\ UNCHANGED << top_unmapped_csv, pfi_wide, scan_report, raw_dir, ref_dir, activity_dir, beds_historical_matched, parquet, fact_tru_tac, fact_tru_tac_enriched,
                      views, artefacts >>

(***************************************************************************)
(* build_enriched_fact.py                                                  *)
(***************************************************************************)
\* read_csv_auto on one field of a CSV file: an empty field is NULL
csv_field(s) == IF s = << >> THEN NaN ELSE Txt(s)

\* SQL: regexp_replace(lower(x), '[^a-z0-9]+', '', 'g'), NULL for NULL
sql_ws_key(cell) == IF cell.k = "nan" THEN NaN ELSE Txt(ws_key(cell.s))

\* SQL a = b in a join condition: never true when either side is NULL
sql_eq(a, b) == a.k # "nan" /\ b.k # "nan" /\ a = b

\* the rows of view dim_provider over mappings/dim_provider.csv
dim_provider(csv) ==
  Concrete([i \in 1..Len(csv) |->
     [sector             |-> csv_field(csv[i].sector),
      org_name_raw       |-> csv_field(csv[i].org_name_raw),
      provider_id        |-> csv_field(csv[i].provider_id),
      org_name_canonical |-> csv_field(csv[i].org_name_canonical)]])

\* the rows of view dim_tac_subcodes_ws as build_enriched_fact defines it
dim_tac_subcodes_ws(csv) ==
  Concrete([i \in 1..Len(csv) |->
     [fy                  |-> csv_field(csv[i].fy),
      ws_key              |-> sql_ws_key(csv_field(csv[i].WorkSheetName)),
      SubCode             |-> csv_field(csv[i].SubCode),
      subcode_label       |-> csv_field(csv[i].subcode_label),
      mapping_source_file |-> csv_field(csv[i].source_file)]])

\* the all-NULL right side of a LEFT JOIN without a match
NullProvider ==
  [sector |-> NaN, org_name_raw |-> NaN, provider_id |-> NaN, org_name_canonical |-> NaN]

NullMapping ==
  [fy |-> NaN, ws_key |-> NaN, SubCode |-> NaN, subcode_label |-> NaN,
   mapping_source_file |-> NaN]

\* ON f.sector = p.sector AND f.org_name_raw = p.org_name_raw
provider_on(f, p) ==
  sql_eq(Txt(f.sector), p.sector) /\ sql_eq(f.org_name_raw, p.org_name_raw)

\* ON f.fy = m.fy AND f.ws_key = m.ws_key AND f.SubCode = m.SubCode
mapping_on(f, m) ==
  /\ sql_eq(Txt(f.fy), m.fy)
  /\ sql_eq(sql_ws_key(f.WorkSheetName), m.ws_key)
  /\ sql_eq(f.SubCode, m.SubCode)

\* the right-side rows a LEFT JOIN pairs a row with
left_join(hits, null_row) == IF hits = << >> THEN << null_row >> ELSE hits

\* the SELECT list of the enriched table for one joined triple
select_enriched(f, p, m) ==
  [org_name_raw        |-> f.org_name_raw,
   WorkSheetName       |-> f.WorkSheetName,
   TableID             |-> f.TableID,
   MainCode            |-> f.MainCode,
   RowNumber           |-> f.RowNumber,
   SubCode             |-> f.SubCode,
   amount              |-> f.amount,
   fy                  |-> f.fy,
   sector              |-> f.sector,
   source_file         |-> f.source_file,
   schema_version      |-> f.schema_version,
   ws_key              |-> sql_ws_key(f.WorkSheetName),
   provider_id         |-> p.provider_id,
   org_name_canonical  |-> p.org_name_canonical,
   subcode_label       |-> m.subcode_label,
   mapping_source_file |-> m.mapping_source_file,
   is_unmapped         |-> IF m.subcode_label.k = "nan" THEN 1 ELSE 0]

\* the rows the two joins produce for one fact row
joined(f, ps, ms) ==
  Concrete([k \in 1..(Len(ps) * Len(ms)) |->
     select_enriched(f, ps[((k - 1) \div Len(ms)) + 1], ms[((k - 1) % Len(ms)) + 1])])

enriched_of(f, prov, dim) ==
  joined(f,
         left_join(SelectSeq(prov, LAMBDA p : provider_on(f, p)), NullProvider),
         left_join(SelectSeq(dim, LAMBDA m : mapping_on(f, m)), NullMapping))

RECURSIVE enriched_rows(_, _, _)
enriched_rows(fact, prov, dim) ==
  IF fact = << >> THEN << >>
  ELSE enriched_of(Head(fact), prov, dim) \o enriched_rows(Tail(fact), prov, dim)

\* a table filled by a query without ORDER BY: its rows with their
\* multiplicities, in no order
BagOf(rows) ==
  [r \in {rows[i] : i \in 1..Len(rows)} |-> Cardinality({i \in 1..Len(rows) : rows[i] = r})]

\* the three statements of the script in order; each fails when what it
\* reads is missing, and the statements before it have taken effect
build_enriched_fact ==
  IF ~mappings.dim_provider.exists
    THEN [error |-> "io_error_dim_provider", views |-> views,
          wrote |-> FALSE, rows |-> << >>]
  ELSE IF ~mappings.dim_tac_subcodes_by_year.exists
    THEN [error |-> "io_error_dim_tac_subcodes_by_year",
          views |-> [views EXCEPT !.dim_provider = "dim_provider_csv"],
          wrote |-> FALSE, rows |-> << >>]
  ELSE [error |-> IF fact_tru_tac.exists THEN "" ELSE "catalog_error_fact_tru_tac",
        views |-> [views EXCEPT !.dim_provider = "dim_provider_csv",
                                !.dim_tac_subcodes_ws = "ws_key_mapping_source_file"],
        wrote |-> fact_tru_tac.exists,
        rows  |-> BagOf(enriched_rows(fact_tru_tac.rows,
                                      dim_provider(mappings.dim_provider.rows),
                                      dim_tac_subcodes_ws(mappings.dim_tac_subcodes_by_year.rows)))]

\* an enrichment that rebuilds fact_tru_tac itself from the mapped rows
BuildEnrichedFactInPlace ==
  \E run \in {build_enriched_fact} :
      /\ last_run' = Ran("build_enriched_fact", run.error)
      /\ views' = run.views
      /\ IF run.wrote
           THEN fact_tru_tac' =
                  Present(SelectSeq(fact_tru_tac.rows,
                             LAMBDA f : \E e \in DOMAIN run.rows :
                                           e.SubCode = f.SubCode /\ e.is_unmapped = 0))
           ELSE UNCHANGED fact_tru_tac
      /\ UNCHANGED << top_unmapped_csv, pfi_wide, scan_report, raw_dir, ref_dir, activity_dir, beds_historical_matched, parquet, fact_tru_tac_enriched, mappings, artefacts >>

\* python src/build_enriched_fact.py
BuildEnrichedFact ==
  \E run \in {build_enriched_fact} :
      /\ last_run' = Ran("build_enriched_fact", run.error)
      /\ views' = run.views
      /\ IF run.wrote
           THEN fact_tru_tac_enriched' = Present(run.rows)
           ELSE UNCHANGED fact_tru_tac_enriched
      /\ UNCHANGED << top_unmapped_csv, pfi_wide, scan_report, raw_dir, ref_dir, activity_dir, beds_historical_matched, parquet, fact_tru_tac, mappings, artefacts >>

(***************************************************************************)
(* make_provider_dim_seed.py                                               *)
(***************************************************************************)
\* SQL MIN and MAX over text values
MAX(S) == CHOOSE x \in S : \A y \in S : StrLeq(y, x)

MIN(S) == CHOOSE x \in S : \A y \in S : StrLeq(x, y)

\* to_csv on one cell: NULL is written as an empty field
csv_text(cell) ==
  IF cell.k = "str" THEN cell.s ELSE IF cell.k = "num" THEN NatToStr(cell.n) ELSE << >>

\* GROUP BY 1,2: the (sector, org_name_raw) groups of the fact table
seed_groups(fact) ==
  {[sector |-> fact[i].sector, org_name_raw |-> fact[i].org_name_raw] : i \in 1..Len(fact)}

\* the members of one group
in_group(fact, g) ==
  {i \in 1..Len(fact) : fact[i].sector = g.sector /\ fact[i].org_name_raw = g.org_name_raw}

\* MIN(fy), MAX(fy), COUNT(*) of one group, as written to the CSV file
seed_row(fact, g, members) ==
  [sector        |-> g.sector,
   org_name_raw  |-> csv_text(g.org_name_raw),
   first_fy_seen |-> MIN({fact[i].fy : i \in members}),
   last_fy_seen  |-> MAX({fact[i].fy : i \in members}),
   rows          |-> Cardinality(members)]

\* ORDER BY sector, org_name_raw (NULLs last)
seed_before(g, h) ==
  \/ StrLess(g.sector, h.sector)
  \/ /\ g.sector = h.sector
     /\ \/ g.org_name_raw.k # "nan" /\ h.org_name_raw.k = "nan"
        \/ /\ g.org_name_raw.k # "nan" /\ h.org_name_raw.k # "nan"
           /\ StrLess(csv_text(g.org_name_raw), csv_text(h.org_name_raw))

RECURSIVE seed_rows(_, _)
seed_next(fact, groups, g) ==
  << seed_row(fact, g, in_group(fact, g)) >> \o seed_rows(fact, groups \ {g})

seed_rows(fact, groups) ==
  IF groups = {} THEN << >>
  ELSE seed_next(fact, groups, CHOOSE g \in groups : \A h \in groups : ~seed_before(h, g))

\* python src/make_provider_dim_seed.py
MakeProviderDimSeed ==
  /\ last_run' = Ran("make_provider_dim_seed",
                     IF fact_tru_tac.exists THEN "" ELSE "catalog_error_fact_tru_tac")
  /\ IF fact_tru_tac.exists
       THEN mappings' = [mappings EXCEPT !.dim_provider_seed =
                           Present(seed_rows(fact_tru_tac.rows, seed_groups(fact_tru_tac.rows)))]
       ELSE UNCHANGED mappings
  /\ UNCHANGED << top_unmapped_csv, pfi_wide, scan_report, raw_dir, ref_dir, activity_dir, beds_historical_matched, parquet, fact_tru_tac, fact_tru_tac_enriched,
                  views, artefacts >>

(***************************************************************************)
(* The other scripts that open tru_tac.duckdb for writing.                 *)
(***************************************************************************)
\* python src/check_subcode_mapping_join_ws_only.py: redefines the view, then
\* only reads
CheckSubcodeMappingJoinWsOnly ==
  /\ last_run' = Ran("check_subcode_mapping_join_ws_only",
                     IF ~mappings.dim_tac_subcodes_by_year.exists
                       THEN "io_error_dim_tac_subcodes_by_year"
                     ELSE IF ~fact_tru_tac.exists THEN "catalog_error_fact_tru_tac"
                     ELSE "")
  /\ views' = IF mappings.dim_tac_subcodes_by_year.exists
                THEN [views EXCEPT !.dim_tac_subcodes_ws = "worksheetname_ws_key_source_file"]
                ELSE views
  /\ UNCHANGED << top_unmapped_csv, pfi_wide, scan_report, raw_dir, ref_dir, activity_dir, beds_historical_matched, parquet, fact_tru_tac, fact_tru_tac_enriched,
                  mappings, artefacts >>

\* the columns of mappings/dim_tac_subcodes_by_year.csv: the keys of the
\* records extract_sheet_subcodes appends
subcode_record_columns == {"fy", "WorkSheetName", "SubCode", "subcode_label", "source_file"}

\* python src/check_subcode_mapping_join.py: the view is created, the query
\* joins on d.TableID, a column the mapping file does not have
CheckSubcodeMappingJoin ==
  /\ last_run' = Ran("check_subcode_mapping_join",
                     IF ~mappings.dim_tac_subcodes_by_year.exists
                       THEN "io_error_dim_tac_subcodes_by_year"
                     ELSE IF ~fact_tru_tac.exists THEN "catalog_error_fact_tru_tac"
                     ELSE IF "TableID" \notin subcode_record_columns THEN "binder_error_TableID"
                     ELSE "")
  /\ views' = IF mappings.dim_tac_subcodes_by_year.exists
                THEN [views EXCEPT !.dim_tac_subcodes = "dim_tac_subcodes_csv"]
                ELSE views
  /\ UNCHANGED << top_unmapped_csv, pfi_wide, scan_report, raw_dir, ref_dir, activity_dir, beds_historical_matched, parquet, fact_tru_tac, fact_tru_tac_enriched,
                  mappings, artefacts >>

\* python src/diagnose_mapping_join_keys.py: the same view; the first test
\* query runs, the second one casts d.TableID
DiagnoseMappingJoinKeys ==
  /\ last_run' = Ran("diagnose_mapping_join_keys",
                     IF ~mappings.dim_tac_subcodes_by_year.exists
                       THEN "io_error_dim_tac_subcodes_by_year"
                     ELSE IF ~fact_tru_tac.exists THEN "catalog_error_fact_tru_tac"
                     ELSE IF "TableID" \notin subcode_record_columns THEN "binder_error_TableID"
                     ELSE "")
  /\ views' = IF mappings.dim_tac_subcodes_by_year.exists
                THEN [views EXCEPT !.dim_tac_subcodes = "dim_tac_subcodes_csv"]
                ELSE views
  /\ UNCHANGED << top_unmapped_csv, pfi_wide, scan_report, raw_dir, ref_dir, activity_dir, beds_historical_matched, parquet, fact_tru_tac, fact_tru_tac_enriched,
                  mappings, artefacts >>

\* the coverage query of provider_join_test: per (fy, sector) the number of
\* joined rows and the number of those without a provider_id
coverage_matches(f, prov) == {j \in 1..Len(prov) : provider_on(f, prov[j])}

coverage_rows(f, prov) ==
  IF coverage_matches(f, prov) = {} THEN 1 ELSE Cardinality(coverage_matches(f, prov))

coverage_unmatched(f, prov) ==
  IF coverage_matches(f, prov) = {} THEN 1
  ELSE Cardinality({j \in coverage_matches(f, prov) : prov[j].provider_id.k = "nan"})

RECURSIVE SumOver(_, _, _)
SumOver(Count(_, _), rows, prov) ==
  IF rows = << >> THEN 0
  ELSE Count(Head(rows), prov) + SumOver(Count, Tail(rows), prov)

coverage(fact, prov) ==
  {[fy             |-> g[1],
    sector         |-> g[2],
    fact_rows      |-> SumOver(coverage_rows,
                               SelectSeq(fact, LAMBDA f : f.fy = g[1] /\ f.sector = g[2]), prov),
    unmatched_rows |-> SumOver(coverage_unmatched,
                               SelectSeq(fact, LAMBDA f : f.fy = g[1] /\ f.sector = g[2]), prov)] :
     g \in {<< fact[i].fy, fact[i].sector >> : i \in 1..Len(fact)}}

\* python src/provider_join_test.py
ProviderJoinTest ==
  /\ last_run' = Ran("provider_join_test",
                     IF ~mappings.dim_provider.exists THEN "io_error_dim_provider"
                     ELSE IF ~fact_tru_tac.exists THEN "catalog_error_fact_tru_tac"
                     ELSE "")
  /\ views' = IF mappings.dim_provider.exists
                THEN [views EXCEPT !.dim_provider = "dim_provider_csv"]
                ELSE views
  /\ UNCHANGED << top_unmapped_csv, pfi_wide, scan_report, raw_dir, ref_dir, activity_dir, beds_historical_matched, parquet, fact_tru_tac, fact_tru_tac_enriched,
                  mappings, artefacts >>

\* python src/make_top_lines.py: outputs/ is made first, the file is written
\* when the query ran
MakeTopLines ==
  /\ last_run' = Ran("make_top_lines",
                     IF fact_tru_tac.exists THEN "" ELSE "catalog_error_fact_tru_tac")
  /\ artefacts' = artefacts \cup {"outputs"} \cup
                  (IF fact_tru_tac.exists THEN {"outputs/top_750_lines_2023-24.csv"} ELSE {})
  /\ UNCHANGED << top_unmapped_csv, pfi_wide, scan_report, raw_dir, ref_dir, activity_dir, beds_historical_matched, parquet, fact_tru_tac, fact_tru_tac_enriched,
                  views, mappings >>

\* python src/query_test.py
QueryTest ==
  /\ last_run' = Ran("query_test",
                     IF fact_tru_tac.exists THEN "" ELSE "catalog_error_fact_tru_tac")
  /\ UNCHANGED << top_unmapped_csv, pfi_wide, scan_report, raw_dir, ref_dir, activity_dir, beds_historical_matched, parquet, fact_tru_tac, fact_tru_tac_enriched,
                  views, mappings, artefacts >>

(***************************************************************************)
(* process_historical_beds.py                                              *)
(***************************************************************************)
\* bed_files: the workbook names the script knows, in dictionary order, and
\* the financial year of each
bed_files ==
  << [filename |-> << "b", "e", "d", "s", "_", "Q", "4", "_", "2", "0", "1", "7", "1", "8", ".", "x", "l", "s", "x" >>, fy |-> << "2", "0", "1", "7", "-", "1", "8" >>],
     [filename |-> << "b", "e", "d", "s", "_", "Q", "4", "_", "2", "0", "1", "8", "1", "9", ".", "x", "l", "s", "x" >>, fy |-> << "2", "0", "1", "8", "-", "1", "9" >>],
     [filename |-> << "b", "e", "d", "s", "_", "Q", "4", "_", "2", "0", "1", "9", "2", "0", ".", "x", "l", "s", "x" >>, fy |-> << "2", "0", "1", "9", "-", "2", "0" >>],
     [filename |-> << "b", "e", "d", "s", "_", "Q", "4", "_", "2", "0", "2", "0", "2", "1", ".", "x", "l", "s", "x" >>, fy |-> << "2", "0", "2", "0", "-", "2", "1" >>],
     [filename |-> << "b", "e", "d", "s", "_", "Q", "4", "_", "2", "0", "2", "1", "-", "2", "2", ".", "x", "l", "s", "x" >>, fy |-> << "2", "0", "2", "1", "-", "2", "2" >>],
     [filename |-> << "b", "e", "d", "s", "_", "Q", "4", "_", "2", "0", "2", "2", "2", "3", ".", "x", "l", "s", "x" >>, fy |-> << "2", "0", "2", "2", "-", "2", "3" >>],
     [filename |-> << "b", "e", "d", "_", "Q", "4", "_", "2", "0", "2", "3", "2", "4", ".", "x", "l", "s", "x" >>, fy |-> << "2", "0", "2", "3", "-", "2", "4" >>] >>

s_NHS_Trust_by_Sector == << "N", "H", "S", " ", "T", "r", "u", "s", "t", " ", "b", "y", " ", "S", "e", "c", "t", "o", "r" >>

s_Org_Name == << "O", "r", "g", " ", "N", "a", "m", "e" >>

\* 'Total ' has a trailing space
s_Total == << "T", "o", "t", "a", "l", " " >>

\* filepath.exists()
bed_file_exists(dir, filename) == \E w \in dir : w.name = filename

bed_workbook(dir, filename) == CHOOSE w \in dir : w.name = filename

\* the rows kept of one sheet: a name, not the repeated header, and a number
\* of beds
clean_beds(sh, org_col, beds_col, fy) ==
  LET kept == SelectSeq(sh.rows,
                LAMBDA r : /\ r[org_col].k # "nan"
                           /\ r[org_col] # Txt(s_Org_Name)
                           /\ to_numeric(r[beds_col]).k = "num")
  IN  Concrete([i \in 1..Len(kept) |->
         [org_name_activity |-> kept[i][org_col],
          beds              |-> to_numeric(kept[i][beds_col]).n,
          fy                |-> fy]])

\* beds_raw[name]: the position of the column with that header, 0 when none
bed_column(header, name) == Least({i \in 1..Len(header) : header[i] = name})

\* the body of the try block for one workbook: read_excel raises when the
\* sheet is missing, the column selection raises when a column is missing
read_beds(w, fy) ==
  IF ~\E i \in 1..Len(w.sheets) : w.sheets[i].name = s_NHS_Trust_by_Sector
    THEN [raised |-> TRUE, rows |-> << >>]
  ELSE LET sh == w.sheets[Least({i \in 1..Len(w.sheets) :
                                   w.sheets[i].name = s_NHS_Trust_by_Sector})]
       IN  IF bed_column(sh.columns, s_Org_Name) = 0 \/ bed_column(sh.columns, s_Total) = 0
             THEN [raised |-> TRUE, rows |-> << >>]
           ELSE [raised |-> FALSE,
                 rows   |-> clean_beds(sh, bed_column(sh.columns, s_Org_Name),
                                       bed_column(sh.columns, s_Total), fy)]

\* one pass of the loop over bed_files: a missing workbook is skipped, an
\* exception raised while reading one is printed and the loop goes on
load_bed_file(dir, entry) ==
  IF ~bed_file_exists(dir, entry.filename) THEN << >>
  ELSE LET beds == read_beds(bed_workbook(dir, entry.filename), entry.fy)
       IN  IF beds.raised THEN << >> ELSE << beds.rows >>

\* all_beds: the frames appended by the loop, in the order of bed_files
RECURSIVE all_beds(_, _)
all_beds(dir, k) ==
  IF k = 0 THEN << >> ELSE all_beds(dir, k - 1) \o load_bed_file(dir, bed_files[k])

\* pd.concat(all_beds, ignore_index=True)
RECURSIVE concat_beds(_)
concat_beds(frames) ==
  IF frames = << >> THEN << >> ELSE Head(frames) \o concat_beds(Tail(frames))

GCD(a, b) == CHOOSE d \in 1..a : a % d = 0 /\ b % d = 0 /\
                                  \A e \in 1..a : (a % e = 0 /\ b % e = 0) => e <= d

RECURSIVE SumOf(_, _)
SumOf(f, S) ==
  IF S = {} THEN 0 ELSE LET x == CHOOSE y \in S : TRUE IN f[x] + SumOf(f, S \ {x})

\* the mean of the values at some positions of a frame, as a fraction in
\* lowest terms
mean_of(total, count) ==
  [num |-> total \div GCD(count, total), den |-> count \div GCD(count, total)]

\* beds_combined.groupby(['org_name_raw', 'fy'])['beds'].mean(), with
\* org_name_raw = org_name_activity.str.strip()
beds_agg(combined) ==
  LET key(i)  == << Strip(combined[i].org_name_activity.s), combined[i].fy >>
      keys    == {key(i) : i \in 1..Len(combined)}
      beds    == [i \in 1..Len(combined) |-> combined[i].beds]
      rows(g) == {i \in 1..Len(combined) : key(i) = g}
  IN  {[org_name_raw |-> g[1], fy |-> g[2],
        beds |-> mean_of(SumOf(beds, rows(g)), Cardinality(rows(g)))] : g \in keys}

\* SELECT DISTINCT org_name_raw FROM fact_tru_tac
tac_orgs(fact) == {fact[i].org_name_raw : i \in 1..Len(fact)}

\* the inner merge on the upper-cased names, keeping the name of the fact
\* table
matched_beds(agg, orgs) ==
  LET pairs  == {p \in agg \X orgs : p[2].k = "str" /\ Upper(p[1].org_name_raw) = Upper(p[2].s)}
      row(p) == [org_name_raw |-> p[2].s, fy |-> p[1].fy, beds |-> p[1].beds]
  IN  [r \in {row(p) : p \in pairs} |-> Cardinality({p \in pairs : row(p) = r})]

\* a processor that gives up when a workbook that is present could not be
\* read
process_historical_beds_strict(frames) ==
  IF Len(frames) < Cardinality({k \in 1..Len(bed_files) :
                                  bed_file_exists(activity_dir, bed_files[k].filename)})
    THEN [error |-> "read_error", wrote |-> FALSE, rows |-> << >>]
  ELSE IF ~fact_tru_tac.exists
    THEN [error |-> "catalog_error_fact_tru_tac", wrote |-> FALSE, rows |-> << >>]
  ELSE IF concat_beds(frames) = << >>
    THEN [error |-> "zero_division_match_rate", wrote |-> FALSE, rows |-> << >>]
  ELSE [error |-> "", wrote |-> TRUE,
        rows  |-> matched_beds(beds_agg(concat_beds(frames)), tac_orgs(fact_tru_tac.rows))]

\* the script from the loop to the summary: what ends it and what it saves
process_historical_beds(frames) ==
  IF frames = << >>
    THEN [error |-> "exit_1_no_bed_data", wrote |-> FALSE, rows |-> << >>]
  ELSE IF ~fact_tru_tac.exists
    THEN [error |-> "catalog_error_fact_tru_tac", wrote |-> FALSE, rows |-> << >>]
  ELSE IF concat_beds(frames) = << >>
    THEN [error |-> "zero_division_match_rate", wrote |-> FALSE, rows |-> << >>]
  ELSE [error |-> "", wrote |-> TRUE,
        rows  |-> matched_beds(beds_agg(concat_beds(frames)), tac_orgs(fact_tru_tac.rows))]

\* python src/process_historical_beds.py
ProcessHistoricalBeds ==
  \E run \in {process_historical_beds(all_beds(activity_dir, Len(bed_files)))} :
      /\ last_run' = Ran("process_historical_beds", run.error)
      /\ artefacts' = artefacts \cup {"Data/analysis/activity_integrated"}
      /\ IF run.wrote
           THEN beds_historical_matched' = Present(run.rows)
           ELSE UNCHANGED beds_historical_matched
      /\ UNCHANGED << top_unmapped_csv, pfi_wide, scan_report, raw_dir, ref_dir, activity_dir, parquet, fact_tru_tac,
                      fact_tru_tac_enriched, views, mappings >>

(***************************************************************************)
(* comprehensive_code_browser.py and manual_code_identification_helper.py: *)
(* two reports that read the database and write under                      *)
(* Data/analysis/code_discovery.  The rows of their files are query        *)
(* results over the database, which neither changes; the model keeps which *)
(* files exist.                                                            *)
(***************************************************************************)
code_discovery == "Data/analysis/code_discovery"

\* a query over the view dim_tac_subcodes_ws: the view must be defined and
\* the CSV file it reads must be there
view_error ==
  IF views.dim_tac_subcodes_ws = "absent" THEN "catalog_error_dim_tac_subcodes_ws"
  ELSE IF ~mappings.dim_tac_subcodes_by_year.exists THEN "io_error_dim_tac_subcodes_by_year"
  ELSE ""

\* the browser: the directory is made first; the first file comes from the
\* view alone, the second query also reads fact_tru_tac
comprehensive_code_browser ==
  IF view_error # ""
    THEN [error |-> view_error, files |-> {code_discovery}]
  ELSE IF ~fact_tru_tac.exists
    THEN [error |-> "catalog_error_fact_tru_tac",
          files |-> {code_discovery,
                     "Data/analysis/code_discovery/all_operating_expense_codes.csv"}]
  ELSE [error |-> "",
        files |-> {code_discovery,
                   "Data/analysis/code_discovery/all_operating_expense_codes.csv",
                   "Data/analysis/code_discovery/top_opex_by_spending_2023-24.csv",
                   "Data/analysis/code_discovery/all_intangible_codes.csv",
                   "Data/analysis/code_discovery/top_intangibles_by_value_2023-24.csv",
                   "Data/analysis/code_discovery/specific_it_search.csv",
                   "Data/analysis/code_discovery/specific_consultancy_search.csv",
                   "Data/analysis/code_discovery/all_staff_codes.csv",
                   "Data/analysis/code_discovery/ppe_additions.csv"}]

\* python src/comprehensive_code_browser.py
ComprehensiveCodeBrowser ==
  /\ last_run' = Ran("comprehensive_code_browser", comprehensive_code_browser.error)
  /\ artefacts' = artefacts \cup comprehensive_code_browser.files
  /\ UNCHANGED << top_unmapped_csv, pfi_wide, scan_report, raw_dir, ref_dir, activity_dir, beds_historical_matched, parquet,
                  fact_tru_tac, fact_tru_tac_enriched, views, mappings >>

\* WHERE LOWER(subcode_label) LIKE '%consult%' OR ... '%advisory%' OR ...
\* '%professional%': false for a NULL label
is_consultancy_label(cell) ==
  /\ cell.k = "str"
  /\ \/ Contains(Lower(cell.s), << "c", "o", "n", "s", "u", "l", "t" >>)
     \/ Contains(Lower(cell.s), << "a", "d", "v", "i", "s", "o", "r", "y" >>)
     \/ Contains(Lower(cell.s), << "p", "r", "o", "f", "e", "s", "s", "i", "o", "n", "a", "l" >>)

\* the SubCode groups of the third query of the helper
consultancy_codes(dim) ==
  {dim[i].SubCode : i \in {j \in 1..Len(dim) : is_consultancy_label(dim[j].subcode_label)}}

\* a helper that makes its output directory before it writes
manual_code_identification_helper_mkdir(existing) ==
  IF ~fact_tru_tac.exists
    THEN [error |-> "catalog_error_fact_tru_tac", files |-> {}]
  ELSE IF view_error # ""
    THEN [error |-> view_error, files |-> {}]
  ELSE [error |-> "",
        files |-> {code_discovery,
                   "Data/analysis/code_discovery/top_50_opex_for_manual_review.csv",
                   "Data/analysis/code_discovery/top_30_intangibles_for_manual_review.csv"}
                  \cup (IF consultancy_codes(dim_tac_subcodes_ws(mappings.dim_tac_subcodes_by_year.rows)) # {}
                          THEN {"Data/analysis/code_discovery/consultancy_spending_by_year.csv"}
                          ELSE {})]

\* the helper, given the files and directories that exist: the first query
\* joins fact_tru_tac and the view; to_csv fails when the output directory,
\* which the script does not make, is not there
manual_code_identification_helper(existing) ==
  IF ~fact_tru_tac.exists
    THEN [error |-> "catalog_error_fact_tru_tac", files |-> {}]
  ELSE IF view_error # ""
    THEN [error |-> view_error, files |-> {}]
  ELSE IF code_discovery \notin existing
    THEN [error |-> "os_error_no_such_directory", files |-> {}]
  ELSE [error |-> "",
        files |-> {"Data/analysis/code_discovery/top_50_opex_for_manual_review.csv",
                   "Data/analysis/code_discovery/top_30_intangibles_for_manual_review.csv"}
                  \cup (IF consultancy_codes(dim_tac_subcodes_ws(mappings.dim_tac_subcodes_by_year.rows)) # {}
                          THEN {"Data/analysis/code_discovery/consultancy_spending_by_year.csv"}
                          ELSE {})]

\* python src/manual_code_identification_helper.py
ManualCodeIdentificationHelper ==
  \E run \in {manual_code_identification_helper(artefacts)} :
      /\ last_run' = Ran("manual_code_identification_helper", run.error)
      /\ artefacts' = artefacts \cup run.files
      /\ UNCHANGED << top_unmapped_csv, pfi_wide, scan_report, raw_dir, ref_dir, activity_dir, beds_historical_matched, parquet,
                      fact_tru_tac, fact_tru_tac_enriched, views, mappings >>

(***************************************************************************)
(* The manual step between make_provider_dim_seed and the scripts that     *)
(* read mappings/dim_provider.csv: the analyst copies the seed and fills   *)
(* in provider_id and org_name_canonical, leaving org_name_raw as seeded.  *)
(***************************************************************************)
provider_from_seed(seed) ==
  Concrete([i \in 1..Len(seed) |->
     [sector             |-> seed[i].sector,
      org_name_raw       |-> seed[i].org_name_raw,
      provider_id        |-> << "P" >> \o NatToStr(i),
      org_name_canonical |-> Upper(seed[i].org_name_raw)]])

CopySeedToProviderDim ==
  /\ mappings.dim_provider_seed.exists
  /\ mappings' = [mappings EXCEPT !.dim_provider =
                     Present(provider_from_seed(mappings.dim_provider_seed.rows))]
  /\ last_run' = Ran("analyst_copies_seed", "")
  /\ UNCHANGED << top_unmapped_csv, pfi_wide, scan_report, raw_dir, ref_dir, activity_dir, beds_historical_matched, parquet,
                  fact_tru_tac, fact_tru_tac_enriched, views, artefacts >>

(***************************************************************************)
(* The steps between two builds: a new year's accounts are saved into      *)
(* Data/raw, an illustrative workbook into Data/reference.  A file saved   *)
(* under a name already there replaces the old one.                        *)
(***************************************************************************)
saved_into(dir, wb) == {w \in dir : w.name # wb.name} \cup {wb}

(***************************************************************************)
(* consultancy_comprehensive_analysis.py, export_sample_data.py and        *)
(* quick_db_info.py: which files they write, and from which database.  The *)
(* rows of the files are query results and are not kept.                   *)
(***************************************************************************)
\* str() of a text inside an f-string
RECURSIVE TextOf(_)
TextOf(t) == IF t = << >> THEN "" ELSE t[1] \o TextOf(Tail(t))

consultancy_detailed == "Data/analysis/consultancy_detailed"

\* LIKE '%a%b%': a, and b somewhere after it
ContainsThen(s, a, b) ==
  \E i \in 0..(Len(s) - Len(a)) :
     /\ SubSeq(s, i + 1, i + Len(a)) = a
     /\ Contains(SubSeq(s, i + Len(a) + 1, Len(s)), b)

\* SELECT DISTINCT SubCode ... WHERE LOWER(subcode_label) LIKE '%consult%'
\*    OR LOWER(subcode_label) LIKE '%advisory%'
analysis_consultancy_codes(dim) ==
  {dim[i].SubCode : i \in {j \in 1..Len(dim) :
      /\ dim[j].subcode_label.k = "str"
      /\ \/ Contains(Lower(dim[j].subcode_label.s), << "c", "o", "n", "s", "u", "l", "t" >>)
         \/ Contains(Lower(dim[j].subcode_label.s), << "a", "d", "v", "i", "s", "o", "r", "y" >>)}}

\* the subquery of the turnover query
operating_income_codes(dim) ==
  {dim[i].SubCode : i \in {j \in 1..Len(dim) :
      /\ dim[j].subcode_label.k = "str"
      /\ \/ Contains(Lower(dim[j].subcode_label.s), << "o", "p", "e", "r", "a", "t", "i", "n", "g", " ", "i", "n", "c", "o", "m", "e" >>)
         \/ ContainsThen(Lower(dim[j].subcode_label.s), << "p", "a", "t", "i", "e", "n", "t", " ", "c", "a", "r", "e" >>, << "i", "n", "c", "o", "m", "e" >>)
         \/ ContainsThen(Lower(dim[j].subcode_label.s), << "o", "t", "h", "e", "r" >>, << "i", "n", "c", "o", "m", "e" >>)}}

\* SUM(amount) over the rows at some positions: NULL when none is a number
sum_amount(fact, at) ==
  IF \A i \in at : fact[i].amount.k # "num" THEN NaN
  ELSE Num(SumOf([i \in 1..Len(fact) |-> fact[i].amount.n],
                 {i \in at : fact[i].amount.k = "num"}))

\* SELECT org_name_raw, sector, fy, SUM(amount) ... WHERE <keep> GROUP BY
\* org_name_raw, sector, fy
spend_groups(fact, keep) ==
  {[org_name_raw |-> g[1], sector |-> g[2], fy |-> g[3],
    total |-> sum_amount(fact, {i \in keep : << fact[i].org_name_raw, fact[i].sector, fact[i].fy >> = g})] :
     g \in {<< fact[i].org_name_raw, fact[i].sector, fact[i].fy >> : i \in keep}}

\* WHERE SubCode IN ('...')
org_year_spend(fact, codes) ==
  spend_groups(fact, {i \in 1..Len(fact) : \E c \in codes : sql_eq(fact[i].SubCode, c)})

\* WHERE WorkSheetName = 'TAC02 SoCI' AND SubCode IN (...)
turnover(fact, codes) ==
  spend_groups(fact, {i \in 1..Len(fact) :
                        /\ sql_eq(fact[i].WorkSheetName, Txt(<< "T", "A", "C", "0", "2", " ", "S", "o", "C", "I" >>))
                        /\ \E c \in codes : sql_eq(fact[i].SubCode, c)})

\* org_year_spend.merge(turnover, on=['org_name_raw', 'sector', 'fy'],
\* how='inner'), with consultancy_pct_turnover finite or not
merged(spend, income) ==
  {[org_name_raw |-> s.org_name_raw, sector |-> s.sector, fy |-> s.fy,
    finite |-> s.total.k = "num" /\ t.total.k = "num" /\ t.total.n # 0] :
     << s, t >> \in {p \in spend \X income :
                      /\ p[1].org_name_raw = p[2].org_name_raw
                      /\ p[1].sector = p[2].sector
                      /\ p[1].fy = p[2].fy}}

\* the earliest year of the merged frame
latest_year_earliest(m) ==
  IF m = {} THEN << "n", "a", "n" >> ELSE MIN({r.fy : r \in m})

\* merged['fy'].max(): nan for an empty frame
latest_year(m) ==
  IF m = {} THEN << "n", "a", "n" >> ELSE MAX({r.fy : r \in m})

\* the files written up to the dashboard
consultancy_csv_files(latest) ==
  {consultancy_detailed,
   "Data/analysis/consultancy_detailed/consultancy_by_org_year.csv",
   "Data/analysis/consultancy_detailed/operating_income_by_org_year.csv",
   "Data/analysis/consultancy_detailed/consultancy_with_turnover_pct.csv",
   "Data/analysis/consultancy_detailed/top_consultancy_spenders_total.csv",
   "Data/analysis/consultancy_detailed/top_consultancy_pct_" \o TextOf(latest) \o ".csv",
   "Data/analysis/consultancy_detailed/sector_comparison.csv"}

\* the script: the directory is made first; the view and the fact table must
\* be there; the histogram of the latest year raises on a percentage that is
\* not finite, after the CSV files and before the dashboard is saved
consultancy_analysis_of(m) ==
  IF \E r \in m : r.fy = latest_year(m) /\ ~r.finite
    THEN [error |-> "value_error_histogram_range",
          files |-> consultancy_csv_files(latest_year(m))]
  ELSE [error |-> "",
        files |-> consultancy_csv_files(latest_year(m))
                  \cup {"Data/analysis/consultancy_detailed/consultancy_comprehensive_analysis.png"}]

consultancy_comprehensive_analysis ==
  IF view_error # ""
    THEN [error |-> view_error, files |-> {consultancy_detailed}]
  ELSE IF ~fact_tru_tac.exists
    THEN [error |-> "catalog_error_fact_tru_tac", files |-> {consultancy_detailed}]
  ELSE LET dim == dim_tac_subcodes_ws(mappings.dim_tac_subcodes_by_year.rows)
       IN  consultancy_analysis_of(
             merged(org_year_spend(fact_tru_tac.rows, analysis_consultancy_codes(dim)),
                    turnover(fact_tru_tac.rows, operating_income_codes(dim))))

\* python src/consultancy_comprehensive_analysis.py
ConsultancyComprehensiveAnalysis ==
  \E run \in {consultancy_comprehensive_analysis} :
      /\ last_run' = Ran("consultancy_comprehensive_analysis", run.error)
      /\ artefacts' = artefacts \cup run.files
      /\ UNCHANGED << top_unmapped_csv, pfi_wide, scan_report, raw_dir, ref_dir, activity_dir, beds_historical_matched, parquet,
                      fact_tru_tac, fact_tru_tac_enriched, views, mappings >>

\* export_sample_data.py and quick_db_info.py: the database they open
DB_PATH == "C:\\Users\\laure\\OneDrive\\Documents\\BevanBriefing\\nhs-tru-tac\\tru_tac.duckdb"

samples == "Data/samples"

\* SHOW TABLES: the names of the tables and views, in order of name
RECURSIVE show_tables(_)
show_tables(tables) ==
  IF tables = {} THEN << >>
  ELSE LET first == CHOOSE t \in tables : \A u \in tables : StrLeq(t.name, u.name)
       IN  << first >> \o show_tables(tables \ {first})

\* 'fact' in t.lower() or 'tru_tac' in t.lower()
is_fact_table(t) ==
  Contains(Lower(t.name), << "f", "a", "c", "t" >>) \/ Contains(Lower(t.name), << "t", "r", "u", "_", "t", "a", "c" >>)

\* the two exports of the first fact table: the sample needs the columns fy
\* and sector, the summary the other columns it names
export_table(t) ==
  IF ~({"fy", "sector"} \subseteq t.columns)
    THEN [error |-> "binder_error_sample", files |-> {samples}]
  ELSE IF ~({"WorkSheetName", "org_name_raw", "SubCode", "amount"} \subseteq t.columns)
    THEN [error |-> "binder_error_summary",
          files |-> {samples,
                     "Data/samples/" \o TextOf(t.name) \o "_sample.parquet",
                     "Data/samples/" \o TextOf(t.name) \o "_sample.csv"}]
  ELSE [error |-> "",
        files |-> {samples,
                   "Data/samples/" \o TextOf(t.name) \o "_sample.parquet",
                   "Data/samples/" \o TextOf(t.name) \o "_sample.csv",
                   "Data/samples/summary_statistics.csv"}]

\* the script over the database found at DB_PATH, if any
export_sample_data(db, fact_tables) ==
  IF ~db.exists THEN [error |-> "io_error_cannot_open_database", files |-> {samples}]
  ELSE IF fact_tables = << >> THEN [error |-> "", files |-> {samples}]
  ELSE export_table(fact_tables[1])

\* what a machine may hold at DB_PATH: nothing, a database without tables,
\* and databases with some of the tables and views of the pipeline or with
\* a table of another shape
fact_columns ==
  {"org_name_raw", "WorkSheetName", "TableID", "MainCode", "RowNumber", "SubCode",
   "amount", "fy", "sector", "source_file", "schema_version"}

DbTable(name, columns) == [name |-> name, columns |-> columns]

DatabasesAtDbPath ==
  { [exists |-> FALSE, tables |-> {}],
    [exists |-> TRUE, tables |-> {}],
    [exists |-> TRUE, tables |-> {DbTable(<< "d", "i", "m", "_", "p", "r", "o", "v", "i", "d", "e", "r" >>, {"sector", "org_name_raw"})}],
    [exists |-> TRUE, tables |-> {DbTable(<< "d", "i", "m", "_", "p", "r", "o", "v", "i", "d", "e", "r" >>, {"sector", "org_name_raw"}),
                                  DbTable(<< "f", "a", "c", "t", "_", "t", "r", "u", "_", "t", "a", "c" >>, fact_columns)}],
    [exists |-> TRUE, tables |-> {DbTable(<< "f", "a", "c", "t", "_", "t", "r", "u", "_", "t", "a", "c" >>, fact_columns),
                                  DbTable(<< "f", "a", "c", "t", "_", "t", "r", "u", "_", "t", "a", "c", "_", "e", "n", "r", "i", "c", "h", "e", "d" >>, fact_columns \cup {"provider_id"})}],
    [exists |-> TRUE, tables |-> {DbTable(<< "f", "a", "c", "t", "_", "t", "r", "u", "_", "t", "a", "c", "_", "e", "n", "r", "i", "c", "h", "e", "d" >>, fact_columns \cup {"provider_id"})}],
    [exists |-> TRUE, tables |-> {DbTable(<< "a", "r", "t", "e", "f", "a", "c", "t", "_", "l", "o", "g" >>, {"fy", "sector", "note"})}],
    [exists |-> TRUE, tables |-> {DbTable(<< "T", "r", "u", "_", "T", "a", "c", "_", "n", "o", "t", "e", "s" >>, {"note"})}] }

\* python src/export_sample_data.py, whatever database is at DB_PATH
ExportSampleData ==
  \E db \in DatabasesAtDbPath :
    \E run \in {export_sample_data(db, SelectSeq(show_tables(db.tables), is_fact_table))} :
      /\ last_run' = Ran("export_sample_data", run.error)
      /\ artefacts' = artefacts \cup run.files
      /\ UNCHANGED << top_unmapped_csv, pfi_wide, scan_report, raw_dir, ref_dir, activity_dir, beds_historical_matched, parquet,
                      fact_tru_tac, fact_tru_tac_enriched, views, mappings >>

\* python src/quick_db_info.py: exit(1) when there is no file at DB_PATH,
\* otherwise the tables are listed
QuickDbInfo ==
  \E db \in DatabasesAtDbPath :
      /\ last_run' = Ran("quick_db_info",
                         IF db.exists THEN "" ELSE "exit_1_database_not_found")
      /\ UNCHANGED << top_unmapped_csv, pfi_wide, scan_report, raw_dir, ref_dir, activity_dir, beds_historical_matched, parquet,
                      fact_tru_tac, fact_tru_tac_enriched, views, mappings, artefacts >>

\* the QC summary build_enriched_fact.py prints: COUNT(*) AS total_rows and
\* SUM(ABS(amount)) AS abs_total of fact_tru_tac_enriched, GROUP BY fy, sector
ABS(n) == IF n < 0 THEN 0 - n ELSE n

qc_group(fy, sector) ==
  {e \in DOMAIN fact_tru_tac_enriched.rows : e.fy = fy /\ e.sector = sector}

total_rows(fy, sector) ==
  SumOf([e \in qc_group(fy, sector) |-> fact_tru_tac_enriched.rows[e]], qc_group(fy, sector))

abs_total(fy, sector) ==
  SumOf([e \in qc_group(fy, sector) |-> ABS(e.amount.n) * fact_tru_tac_enriched.rows[e]],
        {e \in qc_group(fy, sector) : e.amount.k = "num"})

(***************************************************************************)
(* report_unmapped_subcodes.py                                             *)
(***************************************************************************)
\* LIMIT 300
top_unmapped_limit == 300

\* fy IN ('2019-20','2020-21','2021-22','2022-23','2023-24')
report_years == {<< "2", "0", "1", "9", "-", "2", "0" >>, << "2", "0", "2", "0", "-", "2", "1" >>, << "2", "0", "2", "1", "-", "2", "2" >>, << "2", "0", "2", "2", "-", "2", "3" >>, << "2", "0", "2", "3", "-", "2", "4" >>}

\* a filter that takes the unmapped rows of every year
in_report_any_year(e) == e.is_unmapped = 1

\* WHERE is_unmapped=1 AND fy IN (...)
in_report(e) == e.is_unmapped = 1 /\ e.fy \in report_years

\* GROUP BY fy, sector, WorkSheetName, TableID, SubCode
report_key(e) ==
  [fy |-> e.fy, sector |-> e.sector, WorkSheetName |-> e.WorkSheetName,
   TableID |-> e.TableID, SubCode |-> e.SubCode]

\* COUNT(*) AS rows, SUM(ABS(amount)) AS abs_amount of one group: the sum is
\* NULL when no amount of the group is a number
report_group(table, members, key) ==
  [fy |-> key.fy, sector |-> key.sector, WorkSheetName |-> key.WorkSheetName,
   TableID |-> key.TableID, SubCode |-> key.SubCode,
   rows |-> SumOf([e \in members |-> table[e]], members),
   abs_amount |-> IF \A e \in members : e.amount.k # "num" THEN NaN
                  ELSE Num(SumOf([e \in members |-> ABS(e.amount.n) * table[e]],
                                 {e \in members : e.amount.k = "num"}))]

report_groups(table, kept) ==
  {report_group(table, {e \in kept : report_key(e) = key}, key) :
     key \in {report_key(e) : e \in kept}}

\* ORDER BY abs_amount DESC: groups of equal amount come in any order, and
\* the groups without an amount all come last or, in older versions of
\* the database, all first
desc_ordered(a, b, nulls_first) ==
  IF a.k # "num" /\ b.k # "num" THEN TRUE
  ELSE IF a.k # "num" THEN nulls_first
  ELSE IF b.k # "num" THEN ~nulls_first
  ELSE a.n >= b.n

report_orders(groups) ==
  {s \in [1..Cardinality(groups) -> groups] :
     /\ \A i, j \in 1..Cardinality(groups) : s[i] = s[j] => i = j
     /\ \E nulls_first \in BOOLEAN :
           \A i, j \in 1..Cardinality(groups) :
              i < j => desc_ordered(s[i].abs_amount, s[j].abs_amount, nulls_first)}

\* LIMIT n
report_limit(s, n) == IF Len(s) <= n THEN s ELSE SubSeq(s, 1, n)

\* the frames the query can return
top_unmapped(table) ==
  {report_limit(Concrete(s), top_unmapped_limit) :
     s \in report_orders(report_groups(table, {e \in DOMAIN table : in_report(e)}))}

\* python src/report_unmapped_subcodes.py: outputs/ is made first, then the
\* table is probed, and the file is written when the query ran
ReportUnmappedSubcodes ==
  /\ last_run' = Ran("report_unmapped_subcodes",
                     IF fact_tru_tac_enriched.exists THEN ""
                     ELSE "catalog_error_fact_tru_tac_enriched")
  /\ artefacts' = artefacts \cup {"outputs"} \cup
                  (IF fact_tru_tac_enriched.exists
                     THEN {"outputs/top_unmapped_subcodes_by_abs_amount.csv"} ELSE {})
  /\ IF fact_tru_tac_enriched.exists
       THEN \E df \in top_unmapped(fact_tru_tac_enriched.rows) :
               top_unmapped_csv' = Present(df)
       ELSE UNCHANGED top_unmapped_csv
  /\ UNCHANGED << pfi_wide, scan_report, raw_dir, ref_dir, activity_dir, beds_historical_matched, parquet, fact_tru_tac, fact_tru_tac_enriched,
                  views, mappings >>

(***************************************************************************)
(* analyze_pfi_comprehensive.py: the frame pfi_wide it builds and the      *)
(* files it writes.  The per-bed figures of pfi_with_beds.csv are not kept.*)
(***************************************************************************)
pfi_analysis == "Data/analysis/pfi_analysis"

\* LIMIT 30 of the search for related terms
related_codes_limit == 30

\* LIKE '%pfi%' OR '%private finance%' OR '%finance lease%' OR
\* '%service concession%' on the lower-cased label
is_pfi_label(label) ==
  \/ Contains(label, << "p", "f", "i" >>)
  \/ Contains(label, << "p", "r", "i", "v", "a", "t", "e", " ", "f", "i", "n", "a", "n", "c", "e" >>)
  \/ Contains(label, << "f", "i", "n", "a", "n", "c", "e", " ", "l", "e", "a", "s", "e" >>)
  \/ Contains(label, << "s", "e", "r", "v", "i", "c", "e", " ", "c", "o", "n", "c", "e", "s", "s", "i", "o", "n" >>)

\* LIKE '%lease%' OR '%finance cost%' OR '%capital charge%'
is_related_label(label) ==
  \/ Contains(label, << "l", "e", "a", "s", "e" >>)
  \/ Contains(label, << "f", "i", "n", "a", "n", "c", "e", " ", "c", "o", "s", "t" >>)
  \/ Contains(label, << "c", "a", "p", "i", "t", "a", "l", " ", "c", "h", "a", "r", "g", "e" >>)

\* SELECT DISTINCT SubCode, subcode_label, ws_key FROM dim_tac_subcodes_ws
\* WHERE <test>; the count of years of the first query is used nowhere
code_rows(dim, Test(_)) ==
  {[SubCode |-> dim[j].SubCode, subcode_label |-> dim[j].subcode_label,
    ws_key |-> dim[j].ws_key] :
     j \in {j \in 1..Len(dim) :
              dim[j].subcode_label.k = "str" /\ Test(Lower(dim[j].subcode_label.s))}}

\* ORDER BY SubCode LIMIT n
limit_by_subcode(rows, n) ==
  IF Cardinality(rows) <= n THEN rows
  ELSE CHOOSE kept \in SUBSET rows :
         /\ Cardinality(kept) = n
         /\ \A r \in kept : \A q \in rows \ kept : StrLeq(r.SubCode.s, q.SubCode.s)

\* the PFI codes, or the related codes when there is none
pfi_codes(dim) ==
  IF code_rows(dim, is_pfi_label) # {} THEN code_rows(dim, is_pfi_label)
  ELSE limit_by_subcode(code_rows(dim, is_related_label), related_codes_limit)

categorize_pfi(row) ==
  LET label     == Lower(row.subcode_label.s)
      worksheet == IF row.ws_key.k = "nan" THEN << >> ELSE Lower(row.ws_key.s)
  IN  IF Contains(label, << "c", "a", "p", "i", "t", "a", "l" >>) \/ Contains(worksheet, << "c", "a", "p", "i", "t", "a", "l" >>) THEN "Capital"
      ELSE IF Contains(label, << "d", "e", "p", "r", "e", "c", "i", "a", "t", "i", "o", "n" >>) \/ Contains(label, << "i", "m", "p", "a", "i", "r", "m", "e", "n", "t" >>) THEN "Capital"
      ELSE IF Contains(worksheet, << "b", "a", "l", "a", "n", "c", "e", " ", "s", "h", "e", "e", "t" >>) \/ Contains(worksheet, << "s", "o", "f", "p" >>) THEN "Capital"
      ELSE "Revenue"

\* fact_tru_tac f JOIN dim_tac_subcodes_ws d ON f.SubCode = d.SubCode WHERE
\* f.SubCode IN (codes): the pairs of a fact row and a dimension row
pfi_join(fact, dim, codes) ==
  {p \in (1..Len(fact)) \X (1..Len(dim)) :
     /\ sql_eq(fact[p[1]].SubCode, dim[p[2]].SubCode)
     /\ \E c \in codes : sql_eq(fact[p[1]].SubCode, c.SubCode)}

\* the grouping columns of a pair
pfi_group(fact, dim, p) ==
  [org_name_raw  |-> fact[p[1]].org_name_raw,
   sector        |-> fact[p[1]].sector,
   fy            |-> fact[p[1]].fy,
   SubCode       |-> fact[p[1]].SubCode,
   subcode_label |-> dim[p[2]].subcode_label,
   ws_key        |-> dim[p[2]].ws_key]

\* SUM(f.amount) over the pairs of a group: NULL when no amount is a number
pfi_amount(fact, pairs) ==
  IF \A p \in pairs : fact[p[1]].amount.k # "num" THEN NaN
  ELSE Num(SumOf([p \in pairs |-> fact[p[1]].amount.n],
                 {p \in pairs : fact[p[1]].amount.k = "num"}))

\* GROUP BY f.org_name_raw, f.sector, f.fy, f.SubCode, d.subcode_label, d.ws_key
pfi_data(fact, dim, pairs) ==
  {[key |-> g, amount |-> pfi_amount(fact, {p \in pairs : pfi_group(fact, dim, p) = g})] :
     g \in {pfi_group(fact, dim, p) : p \in pairs}}

\* pfi_data.merge(pfi_codes[['SubCode', 'pfi_type']], on='SubCode', how='left'):
\* a row of pfi_data once for every row of pfi_codes with its subcode
with_pfi_type(data, codes) ==
  {rc \in data \X codes : rc[1].key.SubCode = rc[2].SubCode}

\* groupby(['org_name_raw', 'sector', 'fy', 'pfi_type'])['amount'].sum(): rows
\* without an organisation are left out, an amount that is NaN adds nothing
pfi_spend(typed, org, sector, fy, type) ==
  LET mine == {rc \in typed : /\ rc[1].key.org_name_raw = org
                              /\ rc[1].key.sector = sector
                              /\ rc[1].key.fy = fy
                              /\ categorize_pfi(rc[2]) = type}
  IN  SumOf([rc \in mine |-> rc[1].amount.n], {rc \in mine : rc[1].amount.k = "num"})

\* pivot_table(index=[org_name_raw, sector, fy], columns='pfi_type',
\* fill_value=0) and total_pfi = Capital + Revenue
pfi_wide_of(typed) ==
  {[org_name_raw |-> k[1], sector |-> k[2], fy |-> k[3],
    Capital   |-> pfi_spend(typed, k[1], k[2], k[3], "Capital"),
    Revenue   |-> pfi_spend(typed, k[1], k[2], k[3], "Revenue"),
    total_pfi |-> pfi_spend(typed, k[1], k[2], k[3], "Capital")
                    + pfi_spend(typed, k[1], k[2], k[3], "Revenue")] :
     k \in {<< rc[1].key.org_name_raw, rc[1].key.sector, rc[1].key.fy >> :
              rc \in {x \in typed : x[1].key.org_name_raw.k # "nan"}}}

\* if BEDS_FILE.exists(): ... pfi_with_beds.to_csv(...)
pfi_files ==
  {pfi_analysis} \cup (IF beds_historical_matched.exists
                         THEN {"Data/analysis/pfi_analysis/pfi_with_beds.csv"} ELSE {})

\* the ways the script can end.  With no code found, pfi_codes.apply(...,
\* axis=1) gives a frame, not a column: the assignment of pfi_type raises
\* in some versions of pandas and leaves an empty frame in others.
analyze_pfi_comprehensive_of(dim, codes) ==
  (IF codes = {}
     THEN {[error |-> "value_error_pfi_type", wide |-> {}, files |-> {pfi_analysis}]}
     ELSE {})
  \cup
  (IF ~fact_tru_tac.exists
     THEN {[error |-> "catalog_error_fact_tru_tac", wide |-> {}, files |-> {pfi_analysis}]}
     ELSE {[error |-> "",
            wide  |-> pfi_wide_of(with_pfi_type(
                        pfi_data(fact_tru_tac.rows, dim,
                                 pfi_join(fact_tru_tac.rows, dim, codes)), codes)),
            files |-> pfi_files]})

analyze_pfi_comprehensive ==
  IF view_error # ""
    THEN {[error |-> view_error, wide |-> {}, files |-> {pfi_analysis}]}
  ELSE analyze_pfi_comprehensive_of(
         dim_tac_subcodes_ws(mappings.dim_tac_subcodes_by_year.rows),
         pfi_codes(dim_tac_subcodes_ws(mappings.dim_tac_subcodes_by_year.rows)))

\* python src/analyze_pfi_comprehensive.py
AnalyzePfiComprehensive ==
  \E run \in analyze_pfi_comprehensive :
      /\ last_run' = Ran("analyze_pfi_comprehensive", run.error)
      /\ pfi_wide' = run.wide
      /\ artefacts' = artefacts \cup run.files
      /\ UNCHANGED << top_unmapped_csv, scan_report, raw_dir, ref_dir, activity_dir, beds_historical_matched,
                      parquet, fact_tru_tac, fact_tru_tac_enriched, views, mappings >>

(***************************************************************************)
(* discover_pfi_codes.py: it prints what it finds and writes nothing.  Its *)
(* queries select and group by the column WorkSheetName of the view.       *)
(***************************************************************************)
\* the columns of dim_tac_subcodes_ws under each of its two definitions
view_columns ==
  IF views.dim_tac_subcodes_ws = "ws_key_mapping_source_file"
    THEN {"fy", "ws_key", "SubCode", "subcode_label", "mapping_source_file"}
  ELSE IF views.dim_tac_subcodes_ws = "worksheetname_ws_key_source_file"
    THEN {"fy", "WorkSheetName", "ws_key", "SubCode", "subcode_label", "source_file"}
  ELSE {}

\* the first query, and the two on fact_tru_tac when it found a code
discover_pfi_codes ==
  IF view_error # "" THEN view_error
  ELSE IF "WorkSheetName" \notin view_columns THEN "binder_error_WorkSheetName"
  ELSE IF /\ code_rows(dim_tac_subcodes_ws(mappings.dim_tac_subcodes_by_year.rows),
                       is_pfi_label) # {}
          /\ ~fact_tru_tac.exists
    THEN "catalog_error_fact_tru_tac"
  ELSE ""

\* python src/discover_pfi_codes.py
DiscoverPfiCodes ==
  /\ last_run' = Ran("discover_pfi_codes", discover_pfi_codes)
  /\ UNCHANGED << top_unmapped_csv, pfi_wide, scan_report, raw_dir, ref_dir, activity_dir, beds_historical_matched,
                  parquet, fact_tru_tac, fact_tru_tac_enriched, views, mappings, artefacts >>

(***************************************************************************)
(* outlier_analysis.py: its three queries, through a read-only connection, *)
(* and the files it always writes.  The statistics between the queries and *)
(* the files are not modelled: on degenerate data they may raise, after    *)
(* any number of the files.  The files written only for some data (growth  *)
(* and sector outliers) are not kept.                                      *)
(***************************************************************************)
outlier_analysis_dir == "Data/analysis/outlier_analysis"

outlier_files ==
  << "Data/analysis/outlier_analysis/high_outliers_consultancy_pct.csv",
     "Data/analysis/outlier_analysis/low_outliers_consultancy_pct.csv",
     "Data/analysis/outlier_analysis/high_outliers_absolute_spend.csv",
     "Data/analysis/outlier_analysis/outlier_dashboard.png" >>

\* the consultancy codes come from the view, spend and income from fact_tru_tac
outlier_queries ==
  IF view_error # "" THEN view_error
  ELSE IF ~fact_tru_tac.exists THEN "catalog_error_fact_tru_tac"
  ELSE ""

\* the ways the script can end, with the files written by then
outlier_analysis ==
  IF outlier_queries # ""
    THEN {[error |-> outlier_queries, files |-> {outlier_analysis_dir}]}
  ELSE {[error |-> "", files |-> {outlier_analysis_dir} \cup {outlier_files[i] : i \in 1..4}]}
       \cup {[error |-> "statistics_error",
              files |-> {outlier_analysis_dir} \cup {outlier_files[i] : i \in 1..n}] : n \in 0..3}

\* an analysis that keeps its consultancy codes in a table of the database
OutlierAnalysisCaching ==
  \E run \in outlier_analysis :
      /\ last_run' = Ran("outlier_analysis", run.error)
      /\ artefacts' = artefacts \cup run.files
      /\ views' = [views EXCEPT !.dim_tac_subcodes = "consultancy_codes"]
      /\ UNCHANGED << top_unmapped_csv, pfi_wide, scan_report, raw_dir, ref_dir, activity_dir, beds_historical_matched,
                      parquet, fact_tru_tac, fact_tru_tac_enriched, mappings >>

\* python src/outlier_analysis.py
OutlierAnalysis ==
  \E run \in outlier_analysis :
      /\ last_run' = Ran("outlier_analysis", run.error)
      /\ artefacts' = artefacts \cup run.files
      /\ UNCHANGED << top_unmapped_csv, pfi_wide, scan_report, raw_dir, ref_dir, activity_dir, beds_historical_matched,
                      parquet, fact_tru_tac, fact_tru_tac_enriched, views, mappings >>

(***************************************************************************)
(* debug_illustrative_scan.py                                              *)
(***************************************************************************)
KEYWORDS ==
  << norm(<< "T", "a", "b", "l", "e" >>), norm(<< "T", "a", "b", "l", "e", " ", "I", "D" >>), norm(<< "M", "a", "i", "n" >>), norm(<< "M", "a", "i", "n", " ", "c", "o", "d", "e" >>),
     norm(<< "S", "u", "b" >>), norm(<< "S", "u", "b", " ", "c", "o", "d", "e" >>), norm(<< "R", "o", "w" >>), norm(<< "R", "o", "w", " ", "n", "u", "m", "b", "e", "r" >>),
     norm(<< "D", "e", "s", "c", "r", "i", "p", "t", "i", "o", "n" >>) >>

\* pd.read_excel(..., header=None, nrows=30)
nrows == 30

\* score >= 3: the row looks like a header
min_score == 3

\* row_vals[:160]
snippet_len == 160

\* [str(x) for x in row if str(x) != "nan"]
RECURSIVE printable_cells(_)
printable_cells(row) ==
  IF row = << >> THEN << >>
  ELSE (IF astype_str(Head(row)) = << "n", "a", "n" >> THEN << >> ELSE << astype_str(Head(row)) >>)
       \o printable_cells(Tail(row))

\* " ".join(texts)
RECURSIVE join_spaced(_)
join_spaced(texts) ==
  IF texts = << >> THEN << >>
  ELSE IF Len(texts) = 1 THEN texts[1]
  ELSE texts[1] \o << " " >> \o join_spaced(Tail(texts))

row_vals(row) == join_spaced(printable_cells(row))

row_n(row) == norm(row_vals(row))

\* sum(1 for k in KEYWORDS if k in row_n)
score(row) ==
  Cardinality({k \in 1..Len(KEYWORDS) : Contains(row_n(row), KEYWORDS[k])})

\* the row indexes (from 0) of the first nrows rows that score enough
found_rows(grid) ==
  {r \in 0..(Min(nrows, Len(grid)) - 1) : score(grid[r + 1]) >= min_score}

\* the best row with ties going to the latest row
best_latest(grid, found) ==
  CHOOSE r \in found : \A q \in found :
     \/ score(grid[q + 1]) < score(grid[r + 1])
     \/ score(grid[q + 1]) = score(grid[r + 1]) /\ q <= r

\* sorted(found_rows, key=lambda x: (-x[1], x[0]))[0]
best(grid, found) ==
  CHOOSE r \in found : \A q \in found :
     \/ score(grid[q + 1]) < score(grid[r + 1])
     \/ score(grid[q + 1]) = score(grid[r + 1]) /\ r <= q

\* the line printed for one sheet, if any
scan_sheet(sh, found) ==
  IF found = {} THEN << >>
  ELSE LET b == best(sh.grid, found)
       IN  << [sheet |-> sh.name, row |-> b, score |-> score(sh.grid[b + 1]),
               text  |-> SubSeq(row_vals(sh.grid[b + 1]), 1,
                                Min(snippet_len, Len(row_vals(sh.grid[b + 1]))))] >>

RECURSIVE scan_sheets(_)
scan_sheets(sheets) ==
  IF sheets = << >> THEN << >>
  ELSE scan_sheet(Head(sheets), found_rows(Head(sheets).grid)) \o scan_sheets(Tail(sheets))

\* the loop over sorted(REF_DIR.glob("*.xlsx")): a title line per workbook
\* and the lines of its sheets
debug_illustrative_scan(files) ==
  Concrete([i \in 1..Len(files) |->
     [file |-> files[i].name, likely |-> scan_sheets(files[i].sheets)]])

\* python src/debug_illustrative_scan.py
DebugIllustrativeScan ==
  \E out \in {debug_illustrative_scan(sorted({wb \in ref_dir : glob_xlsx(wb.name)}))} :
      /\ scan_report' = out
      /\ last_run' = Ran("debug_illustrative_scan", "")
      /\ UNCHANGED << top_unmapped_csv, pfi_wide, raw_dir, ref_dir, activity_dir, beds_historical_matched, parquet,
                      fact_tru_tac, fact_tru_tac_enriched, views, mappings, artefacts >>

(***************************************************************************)
(* Inputs: the workbooks an analyst may have put in Data/raw.              *)
(***************************************************************************)
MaxRows == 2

MaxRawFiles == 2

\* tuples over a set, up to a length
SeqsUpTo(S, n) == UNION {[1..k -> S] : k \in 0..n}

\* one data row as the analyst sees it, before it is laid out in columns
LogicalRow(org, ws, sub, amt, alt) ==
  [org |-> Txt(org), ws |-> Txt(ws), tab |-> Num(8), main |-> Txt(<< "A", "0", "8", "C", "Y", "0", "1" >>),
   row |-> Num(1), sub |-> Txt(sub), amt |-> amt, alt |-> alt]

OrgA == << "A", "l", "d", "e", "r", " ", "H", "e", "y" >>

OrgB == << "B", "a", "r", "t", "s", " ", "H", "e", "a", "l", "t", "h" >>

WsOpExp == << "T", "A", "C", "0", "8", " ", "O", "p", " ", "E", "x", "p" >>

SubExp == << "E", "X", "P", "0", "3", "9", "0" >>

SubInc == << "I", "N", "C", "1", "2", "0", "0" >>

CanonicalRowPool ==
  { LogicalRow(OrgA, WsOpExp, SubExp, Num(5), Num(90)),
    LogicalRow(OrgB, WsOpExp, SubInc, Txt(<< "n", "/", "a" >>), Num(91)) }

Column(header, role) == [header |-> header, role |-> role]

\* column layouts met across years
LayStd ==
  << Column(<< "O", "r", "g", "a", "n", "i", "s", "a", "t", "i", "o", "n", " ", "N", "a", "m", "e" >>, "org"), Column(<< "W", "o", "r", "k", "S", "h", "e", "e", "t", "N", "a", "m", "e" >>, "ws"),
     Column(<< "T", "a", "b", "l", "e", "I", "D" >>, "tab"), Column(<< "M", "a", "i", "n", "C", "o", "d", "e" >>, "main"),
     Column(<< "R", "o", "w", "N", "u", "m", "b", "e", "r" >>, "row"), Column(<< "S", "u", "b", "C", "o", "d", "e" >>, "sub"),
     Column(<< "T", "o", "t", "a", "l" >>, "amt") >>

LayAlt ==
  << Column(<< "A", "m", "o", "u", "n", "t" >>, "alt"), Column(<< "O", "r", "g", "a", "n", "i", "s", "a", "t", "i", "o", "n" >>, "org"),
     Column(<< "O", "r", "g", " ", "N", "a", "m", "e" >>, "org"),
     Column(<< "W", "o", "r", "k", "s", "h", "e", "e", "t", " ", "N", "a", "m", "e" >>, "ws"), Column(<< "T", "a", "b", "l", "e", " ", "I", "D" >>, "tab"),
     Column(<< "M", "a", "i", "n", " ", "C", "o", "d", "e" >>, "main"), Column(<< "R", "o", "w", " ", "N", "u", "m", "b", "e", "r" >>, "row"),
     Column(<< "S", "u", "b", " ", "C", "o", "d", "e" >>, "sub"), Column(<< "T", "O", "T", "A", "L" >>, "amt") >>

LayNoSub ==
  << Column(<< "O", "r", "g", "a", "n", "i", "s", "a", "t", "i", "o", "n", " ", "N", "a", "m", "e" >>, "org"), Column(<< "W", "o", "r", "k", "S", "h", "e", "e", "t", "N", "a", "m", "e" >>, "ws"),
     Column(<< "T", "a", "b", "l", "e", "I", "D" >>, "tab"), Column(<< "M", "a", "i", "n", "C", "o", "d", "e" >>, "main"),
     Column(<< "R", "o", "w", "N", "u", "m", "b", "e", "r" >>, "row"), Column(<< "T", "o", "t", "a", "l" >>, "amt") >>

LayNoAmt ==
  << Column(<< "O", "r", "g", "a", "n", "i", "s", "a", "t", "i", "o", "n", " ", "N", "a", "m", "e" >>, "org"), Column(<< "W", "o", "r", "k", "S", "h", "e", "e", "t", "N", "a", "m", "e" >>, "ws"),
     Column(<< "T", "a", "b", "l", "e", "I", "D" >>, "tab"), Column(<< "M", "a", "i", "n", "C", "o", "d", "e" >>, "main"),
     Column(<< "R", "o", "w", "N", "u", "m", "b", "e", "r" >>, "row"), Column(<< "S", "u", "b", "C", "o", "d", "e" >>, "sub"),
     Column(<< "C", "o", "m", "m", "e", "n", "t" >>, "amt") >>

LayDup ==
  << Column(<< "O", "r", "g", "a", "n", "i", "s", "a", "t", "i", "o", "n", " ", "N", "a", "m", "e" >>, "org"), Column(<< "W", "o", "r", "k", "S", "h", "e", "e", "t", "N", "a", "m", "e" >>, "ws"),
     Column(<< "T", "a", "b", "l", "e", "I", "D" >>, "tab"), Column(<< "M", "a", "i", "n", "C", "o", "d", "e" >>, "main"),
     Column(<< "R", "o", "w", "N", "u", "m", "b", "e", "r" >>, "row"), Column(<< "S", "u", "b", "C", "o", "d", "e" >>, "sub"),
     Column(<< "T", "o", "t", "a", "l" >>, "amt"), Column(<< "a", "m", "o", "u", "n", "t" >>, "alt") >>

Sheet(name, layout, lrows) ==
  [name    |-> name,
   columns |-> [i \in 1..Len(layout) |-> layout[i].header],
   rows    |-> [r \in 1..Len(lrows) |->
                  [i \in 1..Len(layout) |-> lrows[r][layout[i].role]]]]

NotesSheet == Sheet(<< "N", "o", "t", "e", "s" >>, << Column(<< "N", "o", "t", "e" >>, "org") >>, << >>)

Workbook(name, datasheet) ==
  [name |-> name, sheets |-> << NotesSheet, datasheet >>]

FTs1920 == << "T", "A", "C", "_", "F", "T", "s", "_", "2", "0", "1", "9", "-", "2", "0", ".", "x", "l", "s", "x" >>

Trusts1920 == << "T", "A", "C", "_", "T", "r", "u", "s", "t", "s", "_", "2", "0", "1", "9", "-", "2", "0", ".", "x", "l", "s", "x" >>

Trusts2021 == << "T", "A", "C", "_", "T", "r", "u", "s", "t", "s", "_", "2", "0", "2", "0", "-", "2", "1", ".", "x", "l", "s", "x" >>

ICBs1920 == << "T", "A", "C", "_", "I", "C", "B", "s", "_", "2", "0", "1", "9", "-", "2", "0", ".", "x", "l", "s", "x" >>

OneRow == << LogicalRow(OrgA, WsOpExp, SubExp, Num(5), Num(90)) >>

AllData == << "A", "l", "l", " ", "d", "a", "t", "a" >>

\* well-formed workbooks under every name, and under the first name also
\* workbooks with other layouts, sheet names or headers; one workbook whose
\* name the glob matches and the file-name pattern does not
CanonicalWorkbooks ==
  {Workbook(n, Sheet(AllData, LayStd, rs)) :
      n \in {FTs1920, Trusts1920, Trusts2021},
      rs \in SeqsUpTo(CanonicalRowPool, MaxRows)}
  \cup
  {Workbook(n, Sheet(AllData, LayAlt, OneRow)) :
      n \in {FTs1920, Trusts1920, Trusts2021}}
  \cup
  {Workbook(FTs1920, Sheet(sn, LayStd, OneRow)) : sn \in {<< "A", "L", "L", "_", "D", "A", "T", "A" >>, << "S", "u", "m", "m", "a", "r", "y" >>}}
  \cup
  {Workbook(FTs1920, Sheet(AllData, lay, OneRow)) : lay \in {LayNoSub, LayNoAmt, LayDup}}
  \cup
  {Workbook(ICBs1920, Sheet(AllData, LayStd, OneRow))}

\* a line of a mapping schedule
MappingRow(tab, sub, row, label) ==
  [tab |-> Num(tab), main |-> Txt(<< "A", "0", "8", "C", "Y", "0", "1" >>), sub |-> Txt(sub), row |-> row,
   label |-> Txt(label), alt |-> Num(99), altlabel |-> Txt(<< "O", "t", "h", "e", "r" >>)]

MapStd ==
  << Column(<< "T", "a", "b", "l", "e", "I", "D" >>, "tab"), Column(<< "M", "a", "i", "n", "C", "o", "d", "e" >>, "main"),
     Column(<< "S", "u", "b", "C", "o", "d", "e" >>, "sub"), Column(<< "R", "o", "w", "N", "u", "m", "b", "e", "r" >>, "row"),
     Column(<< "D", "e", "s", "c", "r", "i", "p", "t", "i", "o", "n" >>, "label") >>

MapAlt ==
  << Column(<< "T", "a", "b", "l", "e" >>, "alt"), Column(<< "N", "a", "m", "e" >>, "altlabel"), Column(<< "R", "o", "w" >>, "alt"),
     Column(<< "T", "a", "b", "l", "e", " ", "I", "D" >>, "tab"), Column(<< "M", "a", "i", "n", "_", "C", "o", "d", "e" >>, "main"),
     Column(<< "S", "u", "b", " ", "C", "o", "d", "e" >>, "sub"), Column(<< "R", "o", "w", " ", "N", "u", "m", "b", "e", "r" >>, "row"),
     Column(<< "D", "e", "s", "c", "r", "i", "p", "t", "i", "o", "n" >>, "label") >>

MapNoRow ==
  << Column(<< "T", "a", "b", "l", "e", "I", "D" >>, "tab"), Column(<< "M", "a", "i", "n", "C", "o", "d", "e" >>, "main"),
     Column(<< "S", "u", "b", "C", "o", "d", "e" >>, "sub"), Column(<< "D", "e", "s", "c", "r", "i", "p", "t", "i", "o", "n" >>, "label") >>

MapRows ==
  << MappingRow(8, SubExp, Num(1), << "C", "o", "n", "s", "u", "l", "t", "a", "n", "c", "y" >>),
     MappingRow(8, SubInc, Txt(<< "n", "/", "a" >>), << "I", "n", "c", "o", "m", "e" >>) >>

MappingSheets ==
  {Sheet(<< "M", "a", "p", "p", "i", "n", "g", " ", "s", "c", "h", "e", "d", "u", "l", "e" >>, ml, MapRows) : ml \in {MapStd, MapAlt, MapNoRow}}

\* workbooks that vary in the headers of the mapping and "All data" sheets
ColumnsWorkbooks ==
  {[name |-> FTs1920, sheets |-> << ms, Sheet(AllData, lay, OneRow) >>] :
      ms \in MappingSheets \cup {NotesSheet}, lay \in {LayStd, LayAlt, LayNoAmt}}
  \cup
  {Workbook(n, Sheet(AllData, lay, OneRow)) :
      n \in {Trusts1920, Trusts2021}, lay \in {LayStd, LayAlt, LayNoAmt}}

(***************************************************************************)
(* Inputs: the illustrative workbooks under Data/reference.                *)
(***************************************************************************)
MaxRefFiles == 2

SubAud == << "E", "X", "P", "0", "4", "0", "0" >>

RefHeader == << Txt(<< "D", "e", "s", "c", "r", "i", "p", "t", "i", "o", "n" >>), Txt(<< "S", "u", "b", "C", "o", "d", "e" >>) >>

\* a table whose second subcode has no text to its left
GridOpExp ==
  << RefHeader,
     << Txt(<< "C", "o", "n", "s", "u", "l", "t", "a", "n", "c", "y" >>), Txt(SubExp) >>,
     << NaN, Txt(SubAud) >>,
     << Txt(<< "I", "n", "c", "o", "m", "e" >>), Txt(SubInc) >> >>

\* the same subcodes under other labels
GridOther ==
  << RefHeader,
     << Txt(<< "C", "o", "n", "s", "u", "l", "t", "i", "n", "g", " ", "f", "e", "e", "s" >>), Txt(SubExp) >>,
     << Txt(<< "A", "u", "d", "i", "t" >>), Txt(SubAud) >>,
     << Txt(<< "O", "t", "h", "e", "r", " ", "i", "n", "c", "o", "m", "e" >>), Txt(SubInc) >> >>

\* a table with too few subcodes for the header detection
GridFew ==
  << RefHeader,
     << Txt(<< "S", "t", "a", "f", "f" >>), Txt(<< "E", "X", "P", "0", "1", "0", "0" >>) >>,
     << Txt(<< "D", "r", "u", "g", "s" >>), Txt(<< "E", "X", "P", "0", "2", "0", "0" >>) >> >>

RefSheet(name, grid) == [name |-> name, grid |-> grid]

WsOpExpHyphen == << "T", "A", "C", "0", "8", " ", "O", "p", "-", "E", "x", "p" >>

WsFew == << "T", "a", "c", "0", "9", " ", "F", "e", "w" >>

RefNotes == RefSheet(<< "N", "o", "t", "e", "s" >>, GridOpExp)

Ref1920 == << "I", "l", "l", "u", "s", "t", "r", "a", "t", "i", "v", "e", "_", "2", "0", "1", "9", "-", "2", "0", ".", "x", "l", "s", "x" >>

Ref2021 == << "I", "l", "l", "u", "s", "t", "r", "a", "t", "i", "v", "e", "_", "2", "0", "2", "0", "2", "1", ".", "x", "l", "s", "x" >>

RefNames == { Ref1920, << "T", "A", "C", "_", "i", "l", "l", "u", "s", "t", "r", "a", "t", "i", "v", "e", "_", "1", "9", "2", "0", ".", "x", "l", "s", "x" >>, Ref2021 }

RefSheetLists ==
  { << RefNotes, RefSheet(WsOpExp, GridOpExp) >>,
    << RefSheet(WsOpExpHyphen, GridOther), RefSheet(WsFew, GridFew) >>,
    << RefSheet(WsOpExp, GridOpExp), RefSheet(WsOpExpHyphen, GridOther) >>,
    << RefSheet(WsFew, GridFew) >> }

RefWorkbooks == {[name |-> n, sheets |-> ss] : n \in RefNames, ss \in RefSheetLists}

(***************************************************************************)
(* Inputs of the enrichment: fact rows whose worksheet names are spelt     *)
(* differently from the reference sheets, and a provider dimension.        *)
(***************************************************************************)
FactRowExp == LogicalRow(OrgA, WsOpExp, SubExp, Num(5), Num(90))

FactRowAud == LogicalRow(OrgB, << "T", "a", "c", "0", "8", " ", "O", "p", "_", "E", "x", "p" >>, SubAud, Num(7), Num(91))

FactRowNew == LogicalRow(OrgA, WsOpExp, << "E", "X", "P", "9", "9", "9", "9" >>, Num(9), Num(92))

EnrichWorkbooks ==
  {Workbook(n, Sheet(AllData, LayStd, rs)) :
      n \in {Trusts1920, Trusts2021},
      rs \in { << FactRowExp, FactRowAud >>, << FactRowAud, FactRowNew >> }}

EnrichRefs ==
  {[name |-> n, sheets |-> ss] :
      n \in { Ref1920, Ref2021 },
      ss \in { << RefNotes, RefSheet(WsOpExp, GridOpExp) >>,
               << RefSheet(WsOpExp, GridOpExp), RefSheet(WsOpExpHyphen, GridOther) >> }}

\* reference workbooks with and without sheets the header detection accepts
DetectRefs ==
  {[name |-> Ref1920, sheets |-> ss] : ss \in RefSheetLists}
  \cup {[name |-> Ref2021, sheets |-> << RefSheet(WsFew, GridFew) >>]}

\* mappings/dim_provider.csv as an analyst maintains it
ProviderCsv ==
  << [sector |-> << "T", "r", "u", "s", "t" >>, org_name_raw |-> OrgA, provider_id |-> << "R", "B", "S" >>,
      org_name_canonical |-> << "A", "l", "d", "e", "r", " ", "H", "e", "y", " ", "C", "h", "i", "l", "d", "r", "e", "n", "'", "s" >>] >>

(***************************************************************************)
(* Inputs of the bed processor: quarterly bed workbooks under two of the   *)
(* known names, with and without the sheet and the columns it reads.       *)
(***************************************************************************)
MaxBedFiles == 2

Beds1920 == << "b", "e", "d", "s", "_", "Q", "4", "_", "2", "0", "1", "9", "2", "0", ".", "x", "l", "s", "x" >>

Beds2021 == << "b", "e", "d", "s", "_", "Q", "4", "_", "2", "0", "2", "0", "2", "1", ".", "x", "l", "s", "x" >>

BedColumns == << << "O", "r", "g", " ", "C", "o", "d", "e" >>, s_Org_Name, s_Total >>

BedRow(code, org, beds) == << Txt(code), Txt(org), beds >>

\* a repeated header, one trust twice under two spellings, a trust without a
\* number
BedRowsBarts ==
  << BedRow(<< "O", "r", "g", " ", "C", "o", "d", "e" >>, s_Org_Name, Txt(s_Total)),
     BedRow(<< "R", "1", "H" >>, << " ", "B", "a", "r", "t", "s", " ", "H", "e", "a", "l", "t", "h", " " >>, Num(400)),
     BedRow(<< "R", "1", "H" >>, << "B", "a", "r", "t", "s", " ", "H", "e", "a", "l", "t", "h" >>, Txt(<< "2", "0", "0" >>)),
     BedRow(<< "R", "B", "S" >>, << "A", "l", "d", "e", "r", " ", "H", "e", "y" >>, Txt(<< "n", "/", "a" >>)) >>

\* a trust in capitals and one the accounts do not have
BedRowsAlder ==
  << BedRow(<< "R", "B", "S" >>, << "A", "L", "D", "E", "R", " ", "H", "E", "Y" >>, Num(150)),
     BedRow(<< "R", "R", "8" >>, << "L", "e", "e", "d", "s", " ", "T", "e", "a", "c", "h", "i", "n", "g" >>, Num(10)) >>

\* no row with a number of beds
BedRowsNone == << BedRow(<< "R", "B", "S" >>, << "A", "l", "d", "e", "r", " ", "H", "e", "y" >>, NaN) >>

BedSheet(name, columns, rows) == [name |-> name, columns |-> columns, rows |-> rows]

BedSheetLists ==
  { << BedSheet(s_NHS_Trust_by_Sector, BedColumns, BedRowsBarts) >>,
    << BedSheet(<< "N", "o", "t", "e", "s" >>, << << "N", "o", "t", "e" >> >>, << >>),
       BedSheet(s_NHS_Trust_by_Sector, BedColumns, BedRowsAlder) >>,
    << BedSheet(s_NHS_Trust_by_Sector, BedColumns, BedRowsNone) >>,
    << BedSheet(<< "N", "H", "S", " ", "T", "r", "u", "s", "t", "s" >>, BedColumns, BedRowsBarts) >>,
    << BedSheet(s_NHS_Trust_by_Sector, << << "O", "r", "g", " ", "C", "o", "d", "e" >>, s_Org_Name, << "T", "o", "t", "a", "l" >> >>, BedRowsAlder) >> }

BedWorkbooks == {[name |-> n, sheets |-> ss] : n \in {Beds1920, Beds2021}, ss \in BedSheetLists}

\* Data/raw for the bed processor: empty, the accounts of two trusts, or
\* those and a workbook without a data sheet
BedsRawDirs ==
  { {},
    {Workbook(Trusts1920, Sheet(AllData, LayStd, << FactRowExp, FactRowAud >>))},
    {Workbook(Trusts1920, Sheet(AllData, LayStd, << FactRowExp, FactRowAud >>)),
     Workbook(FTs1920, Sheet(<< "S", "u", "m", "m", "a", "r", "y" >>, LayStd, OneRow))} }

\* a reference table none of whose labels names consultancy
GridPlain ==
  << RefHeader,
     << Txt(<< "S", "t", "a", "f", "f", " ", "c", "o", "s", "t", "s" >>), Txt(<< "E", "X", "P", "0", "1", "0", "0" >>) >>,
     << Txt(<< "D", "r", "u", "g", "s" >>), Txt(<< "E", "X", "P", "0", "2", "0", "0" >>) >>,
     << Txt(<< "P", "r", "e", "m", "i", "s", "e", "s" >>), Txt(SubExp) >> >>

\* the inputs of the reports: accounts of two trusts or none, a reference
\* workbook with or without consultancy labels or none, one bed workbook or
\* none
ReportRawDirs ==
  { {}, {Workbook(Trusts1920, Sheet(AllData, LayStd, << FactRowExp, FactRowAud >>))} }

ReportRefDirs ==
  { {},
    {[name |-> Ref1920, sheets |-> << RefSheet(WsOpExp, GridOpExp) >>]},
    {[name |-> Ref1920, sheets |-> << RefSheet(WsOpExp, GridPlain) >>]} }

ReportBedDirs ==
  { {},
    {[name |-> Beds1920, sheets |-> << BedSheet(s_NHS_Trust_by_Sector, BedColumns, BedRowsBarts) >>]} }

\* a row whose organisation cell is empty
FactRowNoOrg ==
  [LogicalRow(OrgA, WsOpExp, SubExp, Num(3), Num(93)) EXCEPT !.org = NaN]

\* accounts of trusts and foundation trusts, with and without a row that
\* names no organisation
ProviderWorkbooks ==
  {Workbook(n, Sheet(AllData, LayStd, rs)) :
      n \in {Trusts1920, FTs1920, Trusts2021},
      rs \in { << FactRowExp, FactRowAud >>, << FactRowAud >>,
               << FactRowExp, FactRowNoOrg >> }}

\* sheet names in several spellings, some of which are not "All data"
SheetNamePool ==
  { AllData, << "A", "L", "L", " ", "D", "A", "T", "A" >>, << "A", "l", "l", "_", "D", "a", "t", "a" >>, << "S", "u", "m", "m", "a", "r", "y" >>, << "A", "l", "l", " ", "d", "a", "t", "a", " ", "2" >> }

OtherRow == << LogicalRow(OrgB, WsOpExp, SubInc, Num(7), Num(91)) >>

\* workbooks with two data sheets that hold different rows
SheetsWorkbooks ==
  { [name   |-> n,
     sheets |-> << NotesSheet, Sheet(n1, LayStd, OneRow), Sheet(n2, LayStd, OtherRow) >>] :
      n \in {FTs1920, Trusts1920}, n1 \in SheetNamePool, n2 \in SheetNamePool }

\* file names the TAC_*.xlsx glob matches and the file-name pattern does not,
\* and names the glob does not match
OddTacNames ==
  { ICBs1920, << "T", "A", "C", "_", "T", "r", "u", "s", "t", "s", "_", "2", "0", "1", "9", "-", "2", "0", "2", "0", ".", "x", "l", "s", "x" >>, << "T", "A", "C", "_", "t", "r", "u", "s", "t", "s", "_", "2", "0", "1", "9", "-", "2", "0", ".", "x", "l", "s", "x" >>,
    << "T", "A", "C", "_", "F", "T", "s", "_", "2", "0", "1", "9", "2", "0", ".", "x", "l", "s", "x" >>, << "T", "A", "C", "_", "F", "T", "s", "_", "2", "0", "1", "9", "-", "2", "0", " ", "(", "1", ")", ".", "x", "l", "s", "x" >>, << "T", "A", "C", "_", ".", "x", "l", "s", "x" >> }

OtherNames == { << "n", "o", "t", "e", "s", ".", "x", "l", "s", "x" >>, << "T", "A", "C", "_", "F", "T", "s", "_", "2", "0", "1", "9", "-", "2", "0", ".", "c", "s", "v" >> }

NamesWorkbooks ==
  {Workbook(n, Sheet(AllData, LayStd, rs)) :
      n \in {FTs1920, Trusts1920, Trusts2021}, rs \in {OneRow, OtherRow}}
  \cup
  {Workbook(n, Sheet(AllData, LayStd, OneRow)) : n \in OddTacNames \cup OtherNames}

\* rows of a raw sheet with none, two, three or four keywords in them; in
\* one the keyword "table" runs across two cells, in one a number stands
\* between the two halves of a keyword
ScanRowPool ==
  { << Txt(<< "T", "a", "b", "l", "e" >>), Txt(<< "M", "a", "i", "n" >>), NaN >>,
    << Txt(<< "T", "a", "b", "l", "e", " ", "I", "D" >>), Txt(<< "M", "a", "i", "n" >>), Num(5) >>,
    << Txt(<< "S", "u", "b", " ", "c", "o", "d", "e" >>), Txt(<< "R", "o", "w" >>), Txt(<< "D", "e", "s", "c", "r", "i", "p", "t", "i", "o", "n" >>) >>,
    << Txt(<< "T", "a" >>), Txt(<< "b", "l", "e" >>), Txt(<< "M", "a", "i", "n", " ", "C", "o", "d", "e" >>) >>,
    << Txt(<< "T", "a", "b" >>), Num(1), Txt(<< "l", "e", " ", "M", "a", "i", "n", " ", "c", "o", "d", "e" >>) >> }

BlankRows(n) == [i \in 1..n |-> << NaN, NaN, NaN >>]

\* two rows of the pool below 0, 29 or 30 empty rows
ScanGrids ==
  { BlankRows(n) \o << a, b >> : n \in {0, nrows - 1, nrows}, a \in ScanRowPool, b \in ScanRowPool }

\* every grid under one name, and under the other name the grids of two
\* rows that begin with a row of three keywords
ScanWorkbooks ==
  { [name |-> Ref1920, sheets |-> << RefSheet(WsOpExp, g), RefNotes >>] : g \in ScanGrids }
  \cup
  { [name |-> Ref2021, sheets |-> << RefSheet(WsOpExp, g), RefNotes >>] :
      g \in {h \in ScanGrids : Len(h) = 2 /\ h[1][3] = Num(5)} }

\* accounts with consultancy spend and, in some, operating income; a
\* reference table that labels both
WsSoCI == << "T", "A", "C", "0", "2", " ", "S", "o", "C", "I" >>

FactRowIncome == LogicalRow(OrgA, WsSoCI, SubInc, Num(100), Num(94))

FactRowNoIncome == LogicalRow(OrgA, WsSoCI, SubInc, Num(0), Num(95))

GridSoCI ==
  << RefHeader,
     << Txt(<< "C", "o", "n", "s", "u", "l", "t", "a", "n", "c", "y" >>), Txt(SubExp) >>,
     << Txt(<< "A", "u", "d", "i", "t" >>), Txt(SubAud) >>,
     << Txt(<< "O", "p", "e", "r", "a", "t", "i", "n", "g", " ", "i", "n", "c", "o", "m", "e" >>), Txt(SubInc) >> >>

PathsWorkbooks ==
  {Workbook(Trusts1920, Sheet(AllData, LayStd, rs)) :
      rs \in { << FactRowExp >>, << FactRowExp, FactRowIncome >>, << FactRowExp, FactRowNoIncome >> }}
  \cup
  {Workbook(Trusts2021, Sheet(AllData, LayStd, << FactRowExp, FactRowIncome >>))}

PathsRefDirs ==
  { {},
    {[name |-> Ref1920, sheets |-> << RefSheet(WsOpExp, GridSoCI) >>]},
    {[name |-> Ref1920, sheets |-> << RefSheet(WsOpExp, GridPlain) >>]} }

\* reference tables that label one subcode as a PFI payment, as a PFI
\* capital repayment, or as a lease cost
GridPfi ==
  << RefHeader,
     << Txt(<< "P", "F", "I", " ", "u", "n", "i", "t", "a", "r", "y", " ", "p", "a", "y", "m", "e", "n", "t" >>), Txt(SubExp) >>,
     << Txt(<< "A", "u", "d", "i", "t" >>), Txt(SubAud) >>,
     << Txt(<< "I", "n", "c", "o", "m", "e" >>), Txt(SubInc) >> >>

GridPfiCapital ==
  << RefHeader,
     << Txt(<< "P", "F", "I", " ", "c", "a", "p", "i", "t", "a", "l", " ", "r", "e", "p", "a", "y", "m", "e", "n", "t" >>), Txt(SubExp) >>,
     << Txt(<< "A", "u", "d", "i", "t" >>), Txt(SubAud) >>,
     << Txt(<< "I", "n", "c", "o", "m", "e" >>), Txt(SubInc) >> >>

GridLease ==
  << RefHeader,
     << Txt(<< "L", "e", "a", "s", "e", " ", "c", "o", "s", "t", "s" >>), Txt(SubExp) >>,
     << Txt(<< "A", "u", "d", "i", "t" >>), Txt(SubAud) >>,
     << Txt(<< "I", "n", "c", "o", "m", "e" >>), Txt(SubInc) >> >>

PfiRefs ==
  {[name |-> n, sheets |-> << RefSheet(WsOpExp, g) >>] :
      n \in {Ref1920, Ref2021}, g \in {GridPfi, GridPfiCapital, GridLease, GridPlain}}

\* accounts of one trust with one or two rows on the PFI subcode
PfiRawDirs ==
  { {} } \cup
  { {Workbook(Trusts1920, Sheet(AllData, LayStd, rs))} :
      rs \in { << FactRowExp >>, << FactRowExp, FactRowAud >>,
               << FactRowExp, LogicalRow(OrgA, WsOpExp, SubExp, Num(7), Num(96)) >>,
               << FactRowExp, FactRowNoOrg >> } }

\* the accounts of two years, which arrive one after the other, and two
\* editions of one illustrative workbook with different labels
RebuildWorkbooks ==
  { Workbook(Trusts1920, Sheet(AllData, LayStd, << FactRowExp, FactRowAud >>)),
    Workbook(Trusts2021, Sheet(AllData, LayStd, << FactRowAud, FactRowNew >>)) }

RebuildRefs ==
  {[name |-> Ref1920, sheets |-> ss] :
      ss \in { << RefNotes, RefSheet(WsOpExp, GridOpExp) >>,
               << RefSheet(WsOpExp, GridOther) >> }}

\* accounts the build accepts, and accounts it rejects: for the file name,
\* for want of an 'All data' sheet, for want of a required column
AtomicWorkbooks ==
  { Workbook(Trusts1920, Sheet(AllData, LayStd, OneRow)),
    Workbook(Trusts1920, Sheet(AllData, LayStd, OtherRow)),
    Workbook(Trusts2021, Sheet(AllData, LayStd, OneRow)),
    Workbook(Trusts2021, Sheet(AllData, LayNoSub, OneRow)),
    Workbook(ICBs1920, Sheet(AllData, LayStd, OneRow)),
    Workbook(FTs1920, Sheet(<< "S", "u", "m", "m", "a", "r", "y" >>, LayStd, OneRow)),
    Workbook(FTs1920, Sheet(AllData, LayNoAmt, OneRow)) }

\* accounts of a year before the years reported on, and accounts with rows
\* on subcodes no reference table lists, one of them without an amount
Trusts1819 == << "T", "A", "C", "_", "T", "r", "u", "s", "t", "s", "_", "2", "0", "1", "8", "-", "1", "9", ".", "x", "l", "s", "x" >>

FactRowNoAmount == LogicalRow(OrgB, WsOpExp, << "E", "X", "P", "8", "8", "8", "8" >>, Txt(<< "n", "/", "a" >>), Num(94))

FactRowNewB == LogicalRow(OrgB, WsOpExp, << "E", "X", "P", "9", "9", "9", "9" >>, Num(9), Num(95))

UnmappedWorkbooks ==
  { Workbook(Trusts1819, Sheet(AllData, LayStd, << FactRowNew >>)),
    Workbook(Trusts1920, Sheet(AllData, LayStd, << FactRowExp, FactRowNew, FactRowAud >>)),
    Workbook(Trusts1920, Sheet(AllData, LayStd, << FactRowNew, FactRowNoAmount >>)),
    Workbook(Trusts1920, Sheet(AllData, LayStd, << FactRowNew, FactRowNewB >>)),
    Workbook(Trusts2021, Sheet(AllData, LayStd, << FactRowNew >>)),
    Workbook(Trusts2021, Sheet(AllData, LayStd, << FactRowAud >>)) }

FTs2021 == << "T", "A", "C", "_", "F", "T", "s", "_", "2", "0", "2", "0", "-", "2", "1", ".", "x", "l", "s", "x" >>

\* a name the glob of the line-dimension builder matches and parse_fy does not
FTsDraft == << "T", "A", "C", "_", "F", "T", "s", "_", "d", "r", "a", "f", "t", ".", "x", "l", "s", "x" >>

LineExp == MappingRow(8, SubExp, Num(1), << "C", "o", "n", "s", "u", "l", "t", "a", "n", "c", "y" >>)

\* the same line under another label
LineExpRelabelled == MappingRow(8, SubExp, Num(1), << "C", "o", "n", "s", "u", "l", "t", "i", "n", "g", " ", "f", "e", "e", "s" >>)

LineInc == MappingRow(8, SubInc, Num(2), << "I", "n", "c", "o", "m", "e" >>)

\* a line whose SubCode cell is empty
LineNoSubCode == [MappingRow(8, SubInc, Num(3), << "S", "u", "b", "t", "o", "t", "a", "l" >>) EXCEPT !.sub = NaN]

\* a line without a row number
LineNoRowNumber == MappingRow(8, SubInc, Txt(<< "n", "/", "a" >>), << "H", "e", "a", "d", "i", "n", "g" >>)

\* a line whose TableID is text
LineTextTable == [MappingRow(8, SubExp, Num(1), << "O", "t", "h", "e", "r" >>) EXCEPT !.tab = Txt(<< "T", "0", "8" >>)]

LineSchedules ==
  { << LineExp, LineInc >>,
    << LineExpRelabelled >>,
    << LineExp, LineExpRelabelled, LineNoRowNumber >>,
    << LineInc, LineNoSubCode >>,
    << LineTextTable >> }

\* TAC_FTs workbooks of two years, and one without a year in its name, whose
\* mapping schedules share lines
LineWorkbooks ==
  {[name |-> n,
    sheets |-> << Sheet(<< "M", "a", "p", "p", "i", "n", "g", " ", "s", "c", "h", "e", "d", "u", "l", "e" >>, MapStd, ls), NotesSheet >>] :
      n \in {FTs1920, FTs2021, FTsDraft}, ls \in LineSchedules}

\* the second trust as the accounts of another year spell it
FactRowAudCapitals == LogicalRow(Upper(OrgB), WsOpExp, SubAud, Num(8), Num(93))

\* accounts of two years that spell a trust alike or not
MatchWorkbooks ==
  { Workbook(Trusts1920, Sheet(AllData, LayStd, << FactRowExp, FactRowAud >>)),
    Workbook(Trusts1920, Sheet(AllData, LayStd, << FactRowExp >>)),
    Workbook(Trusts2021, Sheet(AllData, LayStd, << FactRowAud >>)),
    Workbook(Trusts2021, Sheet(AllData, LayStd, << FactRowAudCapitals >>)) }

\* one trust twice in a quarter, once in capitals
BedRowsSpellings ==
  << BedRow(<< "R", "B", "S" >>, OrgA, Num(100)),
     BedRow(<< "R", "B", "S" >>, Upper(OrgA), Num(150)) >>

MatchBedWorkbooks ==
  {[name |-> n, sheets |-> << BedSheet(s_NHS_Trust_by_Sector, BedColumns, rs) >>] :
      n \in {Beds1920, Beds2021},
      rs \in {BedRowsBarts, BedRowsAlder, BedRowsSpellings}}

\* directories of at most n files with distinct names
RECURSIVE Dirs(_, _)
Dirs(workbooks, n) ==
  IF n = 0 THEN { {} }
  ELSE LET smaller == Dirs(workbooks, n - 1)
           grown   == UNION { { d \cup {w} :
                                  w \in {x \in workbooks :
                                           \A y \in d : y.name # x.name} } :
                              d \in smaller }
       IN  smaller \cup grown

(***************************************************************************)
(* Initial states and specifications.                                      *)
(***************************************************************************)
NoViews ==
  [dim_provider |-> "absent", dim_tac_subcodes_ws |-> "absent",
   dim_tac_subcodes |-> "absent"]

NoMappings ==
  [dim_tac_subcodes_by_year |-> Absent, dim_provider |-> Absent,
   dim_provider_seed |-> Absent, dim_tac_lines |-> Absent]

\* a fresh checkout with the given input directories: nothing built yet
InitWith(rawDirs, refDirs) ==
  /\ raw_dir \in rawDirs
  /\ ref_dir \in refDirs
  /\ activity_dir = {}
  /\ beds_historical_matched = Absent
  /\ scan_report = << >>
  /\ pfi_wide = {}
  /\ top_unmapped_csv = Absent
  /\ parquet = Absent
  /\ fact_tru_tac = Absent
  /\ fact_tru_tac_enriched = Absent
  /\ views = NoViews
  /\ mappings = NoMappings
  /\ artefacts = {}
  /\ last_run = Ran("none", "")

\* ingestion of Data/raw
InitCanonical == InitWith(Dirs(CanonicalWorkbooks, MaxRawFiles), { {} })

NextCanonical == BuildCanonical

SpecCanonical == InitCanonical /\ [][NextCanonical]_vars

\* column detection of the ingester and of the line-dimension builder
InitColumns == InitWith(Dirs(ColumnsWorkbooks, MaxRawFiles), { {} })

NextColumns == BuildCanonical \/ BuildDimLinesFromMapping

SpecColumns == InitColumns /\ [][NextColumns]_vars

\* the subcode dimension built from Data/reference
InitDim == InitWith({ {} }, Dirs(RefWorkbooks, MaxRefFiles))

NextDim == BuildDimSubcodes

SpecDim == InitDim /\ [][NextDim]_vars

\* a checkout with input directories and possibly a provider dimension
InitMapped(rawDirs, refDirs, providerFiles) ==
  /\ raw_dir \in rawDirs
  /\ ref_dir \in refDirs
  /\ activity_dir = {}
  /\ beds_historical_matched = Absent
  /\ scan_report = << >>
  /\ pfi_wide = {}
  /\ top_unmapped_csv = Absent
  /\ parquet = Absent
  /\ fact_tru_tac = Absent
  /\ fact_tru_tac_enriched = Absent
  /\ views = NoViews
  /\ mappings \in {[NoMappings EXCEPT !.dim_provider = p] : p \in providerFiles}
  /\ artefacts = {}
  /\ last_run = Ran("none", "")

\* ingestion, the subcode dimension, the enrichment and the join check
InitEnrich ==
  InitMapped(Dirs(EnrichWorkbooks, MaxRawFiles), Dirs(EnrichRefs, MaxRefFiles),
             {Absent, Present(ProviderCsv)})

NextEnrich ==
  \/ BuildCanonical
  \/ BuildDimSubcodes
  \/ BuildEnrichedFact
  \/ CheckSubcodeMappingJoinWsOnly

SpecEnrich == InitEnrich /\ [][NextEnrich]_vars

\* every script that opens the database for writing, over single-file inputs
InitDatabase ==
  InitMapped({ {} } \cup {{w} : w \in {x \in EnrichWorkbooks : x.name = Trusts1920}},
             { {} } \cup {{w} : w \in EnrichRefs},
             {Absent, Present(ProviderCsv)})

NextDatabase ==
  \/ BuildCanonical
  \/ BuildDimSubcodes
  \/ BuildEnrichedFact
  \/ CheckSubcodeMappingJoinWsOnly
  \/ CheckSubcodeMappingJoin
  \/ DiagnoseMappingJoinKeys
  \/ ProviderJoinTest
  \/ MakeProviderDimSeed
  \/ MakeTopLines
  \/ QueryTest
  \/ ReportUnmappedSubcodes

SpecDatabase == InitDatabase /\ [][NextDatabase]_vars

\* ingestion followed by the provider seed
InitSeed == InitWith(Dirs(CanonicalWorkbooks, MaxRawFiles), { {} })

NextSeed == BuildCanonical \/ MakeProviderDimSeed

SpecSeed == InitSeed /\ [][NextSeed]_vars

\* the three builders that detect sheets, header rows and columns
InitDetection ==
  InitWith(Dirs(ColumnsWorkbooks \cup {Workbook(Trusts1920, Sheet(<< "S", "u", "m", "m", "a", "r", "y" >>, LayStd, OneRow))},
                MaxRawFiles),
           Dirs(DetectRefs, MaxRefFiles))

NextDetection == BuildCanonical \/ BuildDimLinesFromMapping \/ BuildDimSubcodes

SpecDetection == InitDetection /\ [][NextDetection]_vars

\* the quarterly bed workbooks and the fact table they are matched to
InitBeds ==
  /\ raw_dir \in BedsRawDirs
  /\ ref_dir = {}
  /\ activity_dir \in Dirs(BedWorkbooks, MaxBedFiles)
  /\ parquet = Absent
  /\ fact_tru_tac = Absent
  /\ fact_tru_tac_enriched = Absent
  /\ views = NoViews
  /\ mappings = NoMappings
  /\ beds_historical_matched = Absent
  /\ scan_report = << >>
  /\ pfi_wide = {}
  /\ top_unmapped_csv = Absent
  /\ artefacts = {}
  /\ last_run = Ran("none", "")

NextBeds == BuildCanonical \/ ProcessHistoricalBeds

SpecBeds == InitBeds /\ [][NextBeds]_vars

\* the pipeline up to the enrichment, and three reports run in any order
InitReports ==
  /\ raw_dir \in ReportRawDirs
  /\ ref_dir \in ReportRefDirs
  /\ activity_dir \in ReportBedDirs
  /\ parquet = Absent
  /\ fact_tru_tac = Absent
  /\ fact_tru_tac_enriched = Absent
  /\ views = NoViews
  /\ mappings = [NoMappings EXCEPT !.dim_provider = Present(ProviderCsv)]
  /\ beds_historical_matched = Absent
  /\ scan_report = << >>
  /\ pfi_wide = {}
  /\ top_unmapped_csv = Absent
  /\ artefacts = {}
  /\ last_run = Ran("none", "")

NextReports ==
  \/ BuildCanonical
  \/ BuildDimSubcodes
  \/ BuildEnrichedFact
  \/ ProcessHistoricalBeds
  \/ ComprehensiveCodeBrowser
  \/ ManualCodeIdentificationHelper

SpecReports == InitReports /\ [][NextReports]_vars

\* the provider dimension seeded from the fact table and joined back to it
InitProvider ==
  InitWith(Dirs(ProviderWorkbooks, MaxRawFiles),
           { {}, {[name |-> Ref1920, sheets |-> << RefSheet(WsOpExp, GridOpExp) >>]} })

NextProvider ==
  \/ BuildCanonical
  \/ BuildDimSubcodes
  \/ MakeProviderDimSeed
  \/ CopySeedToProviderDim
  \/ ProviderJoinTest
  \/ BuildEnrichedFact

SpecProvider == InitProvider /\ [][NextProvider]_vars

\* workbooks whose sheets carry the "All data" name in several places
InitSheets == InitWith(Dirs(SheetsWorkbooks, MaxRawFiles), { {} })

NextSheets == BuildCanonical

SpecSheets == InitSheets /\ [][NextSheets]_vars

\* Data/raw with well-named and oddly named files
InitNames == InitWith(Dirs(NamesWorkbooks, MaxRawFiles), { {} })

NextNames == BuildCanonical

SpecNames == InitNames /\ [][NextNames]_vars

\* the header scan over the reference workbooks
InitScan == InitWith({ {} }, Dirs(ScanWorkbooks, MaxRefFiles))

NextScan == DebugIllustrativeScan

SpecScan == InitScan /\ [][NextScan]_vars

\* the scripts that write under Data/analysis/consultancy_detailed and
\* Data/samples, after the builds they read from
InitPaths ==
  InitMapped(Dirs(PathsWorkbooks, MaxRawFiles), PathsRefDirs, {Present(ProviderCsv)})

NextPaths ==
  \/ BuildCanonical
  \/ BuildDimSubcodes
  \/ BuildEnrichedFact
  \/ ConsultancyComprehensiveAnalysis
  \/ ExportSampleData
  \/ QuickDbInfo

SpecPaths == InitPaths /\ [][NextPaths]_vars

\* the PFI analysis over a database whose subcode dimension covers one or
\* two years
InitPfi ==
  /\ raw_dir \in PfiRawDirs
  /\ ref_dir \in Dirs(PfiRefs, MaxRefFiles)
  /\ activity_dir \in ReportBedDirs
  /\ parquet = Absent
  /\ fact_tru_tac = Absent
  /\ fact_tru_tac_enriched = Absent
  /\ views = NoViews
  /\ mappings = NoMappings
  /\ beds_historical_matched = Absent
  /\ scan_report = << >>
  /\ pfi_wide = {}
  /\ top_unmapped_csv = Absent
  /\ artefacts = {}
  /\ last_run = Ran("none", "")

NextPfi ==
  \/ BuildCanonical
  \/ BuildDimSubcodes
  \/ CheckSubcodeMappingJoinWsOnly
  \/ ProcessHistoricalBeds
  \/ AnalyzePfiComprehensive

SpecPfi == InitPfi /\ [][NextPfi]_vars

\* builds, the report on the enriched table, and files arriving in between
SaveRawWorkbook ==
  \E wb \in RebuildWorkbooks :
      /\ saved_into(raw_dir, wb) # raw_dir
      /\ Cardinality(saved_into(raw_dir, wb)) <= MaxRawFiles
      /\ raw_dir' = saved_into(raw_dir, wb)
      /\ last_run' = Ran("analyst_saves_accounts", "")
      /\ UNCHANGED << top_unmapped_csv, pfi_wide, scan_report, ref_dir, activity_dir, beds_historical_matched, parquet,
                      fact_tru_tac, fact_tru_tac_enriched, views, mappings, artefacts >>

SaveReferenceWorkbook ==
  \E wb \in RebuildRefs :
      /\ saved_into(ref_dir, wb) # ref_dir
      /\ Cardinality(saved_into(ref_dir, wb)) <= MaxRefFiles
      /\ ref_dir' = saved_into(ref_dir, wb)
      /\ last_run' = Ran("analyst_saves_reference", "")
      /\ UNCHANGED << top_unmapped_csv, pfi_wide, scan_report, raw_dir, activity_dir, beds_historical_matched, parquet,
                      fact_tru_tac, fact_tru_tac_enriched, views, mappings, artefacts >>

InitRebuild ==
  InitMapped(Dirs(RebuildWorkbooks, 1), Dirs(RebuildRefs, 1), {Present(ProviderCsv)})

NextRebuild ==
  \/ BuildCanonical
  \/ BuildDimSubcodes
  \/ BuildEnrichedFact
  \/ ReportUnmappedSubcodes
  \/ SaveRawWorkbook
  \/ SaveReferenceWorkbook

SpecRebuild == InitRebuild /\ [][NextRebuild]_vars

\* the two scripts that define the view, and two that query it
InitView == InitMapped(PfiRawDirs, Dirs(PfiRefs, 1), {Present(ProviderCsv)})

NextView ==
  \/ BuildCanonical
  \/ BuildDimSubcodes
  \/ BuildEnrichedFact
  \/ CheckSubcodeMappingJoinWsOnly
  \/ DiscoverPfiCodes
  \/ AnalyzePfiComprehensive

SpecView == InitView /\ [][NextView]_vars

\* builds of the store while accounts, good and bad, are saved into Data/raw
SaveAnyWorkbook ==
  \E wb \in AtomicWorkbooks :
      /\ saved_into(raw_dir, wb) # raw_dir
      /\ Cardinality(saved_into(raw_dir, wb)) <= MaxRawFiles
      /\ raw_dir' = saved_into(raw_dir, wb)
      /\ last_run' = Ran("analyst_saves_accounts", "")
      /\ UNCHANGED << top_unmapped_csv, pfi_wide, scan_report, ref_dir, activity_dir, beds_historical_matched, parquet,
                      fact_tru_tac, fact_tru_tac_enriched, views, mappings, artefacts >>

InitAtomic == InitWith(Dirs(AtomicWorkbooks, 1), { {} })

NextAtomic == BuildCanonical \/ SaveAnyWorkbook

SpecAtomic == InitAtomic /\ [][NextAtomic]_vars

\* the scripts that create tables and views, and scripts that only read
InitReaders ==
  InitMapped({ {}, {Workbook(Trusts1920, Sheet(AllData, LayStd, << FactRowExp >>))} },
             Dirs(PfiRefs, 1), {Present(ProviderCsv)})

NextReaders ==
  \/ BuildCanonical
  \/ BuildDimSubcodes
  \/ BuildEnrichedFact
  \/ CheckSubcodeMappingJoinWsOnly
  \/ CheckSubcodeMappingJoin
  \/ DiagnoseMappingJoinKeys
  \/ ProviderJoinTest
  \/ OutlierAnalysis
  \/ AnalyzePfiComprehensive
  \/ DiscoverPfiCodes
  \/ QuickDbInfo

SpecReaders == InitReaders /\ [][NextReaders]_vars

\* the pipeline up to the enrichment, and the report on the unmapped subcodes
InitUnmapped ==
  InitMapped(Dirs(UnmappedWorkbooks, MaxRawFiles),
             { {[name |-> Ref1920, sheets |-> << RefSheet(WsOpExp, GridOpExp) >>]} },
             {Present(ProviderCsv)})

NextUnmapped ==
  \/ BuildCanonical
  \/ BuildDimSubcodes
  \/ BuildEnrichedFact
  \/ ReportUnmappedSubcodes

SpecUnmapped == InitUnmapped /\ [][NextUnmapped]_vars

\* the line dimension built from the mapping schedules of several years
InitLines == InitWith(Dirs(LineWorkbooks, MaxRawFiles), { {} })

NextLines == BuildDimLinesFromMapping

SpecLines == InitLines /\ [][NextLines]_vars

\* bed records matched to accounts whose spellings of a trust differ in case
InitMatch ==
  /\ raw_dir \in Dirs(MatchWorkbooks, MaxRawFiles)
  /\ ref_dir = {}
  /\ activity_dir \in Dirs(MatchBedWorkbooks, MaxBedFiles)
  /\ parquet = Absent
  /\ fact_tru_tac = Absent
  /\ fact_tru_tac_enriched = Absent
  /\ views = NoViews
  /\ mappings = NoMappings
  /\ beds_historical_matched = Absent
  /\ scan_report = << >>
  /\ pfi_wide = {}
  /\ top_unmapped_csv = Absent
  /\ artefacts = {}
  /\ last_run = Ran("none", "")

NextMatch == BuildCanonical \/ ProcessHistoricalBeds

SpecMatch == InitMatch /\ [][NextMatch]_vars

(***************************************************************************)
(* Properties.                                                             *)
(***************************************************************************)
\* the financial year and sector a workbook's file name announces
NameFy(name) == SubSeq(name, Len(name) - 11, Len(name) - 5)

NameSector(name) ==
  IF Contains(name, << "_", "T", "r", "u", "s", "t", "s", "_" >>) THEN << "T", "r", "u", "s", "t" >> ELSE << "F", "T" >>

\* the rows of the workbook's sheet called "All data" in some spelling
AllDataRows(wb) ==
  LET i == CHOOSE i \in 1..Len(wb.sheets) :
              /\ Lower(SelectSeq(wb.sheets[i].name, LAMBDA c : c \notin {" ", "_"}))
                   = << "a", "l", "l", "d", "a", "t", "a" >>
              /\ \A j \in 1..(i - 1) :
                   Lower(SelectSeq(wb.sheets[j].name, LAMBDA c : c \notin {" ", "_"}))
                     # << "a", "l", "l", "d", "a", "t", "a" >>
  IN  wb.sheets[i].rows

RECURSIVE SumRows(_)
SumRows(wbs) ==
  IF wbs = {} THEN 0
  ELSE LET w == CHOOSE w \in wbs : TRUE
       IN  Len(AllDataRows(w)) + SumRows(wbs \ {w})

BuiltOk == last_run.script = "build_canonical" /\ last_run.status = "ok"

\* C1: after a successful build_canonical run the fact table holds, workbook
\* after workbook in ascending file-name order, one row per row of each
\* workbook's "All data" sheet, each carrying the fy, sector and source_file
\* of its workbook and schema_version = fy.
C1_FactIsConcatenation ==
  BuiltOk =>
    LET rows == fact_tru_tac.rows
        wbs  == {wb \in raw_dir : HasPrefix(wb.name, s_TAC_)}
    IN  /\ fact_tru_tac.exists
        /\ Len(rows) = SumRows(wbs)
        /\ \A i \in 1..Len(rows) :
             /\ \E wb \in wbs : rows[i].source_file = wb.name
             /\ rows[i].fy = NameFy(rows[i].source_file)
             /\ rows[i].sector = NameSector(rows[i].source_file)
             /\ rows[i].schema_version = rows[i].fy
        /\ \A i, j \in 1..Len(rows) :
             i < j => StrLeq(rows[i].source_file, rows[j].source_file)
        /\ \A wb \in wbs :
             LET mine == SelectSeq(rows, LAMBDA r : r.source_file = wb.name)
                 data == AllDataRows(wb)
             IN  /\ Len(mine) = Len(data)
                 /\ \A k \in 1..Len(mine) :
                      \A f \in {"org_name_raw", "WorkSheetName", "SubCode"} :
                         \E c \in 1..Len(data[k]) : data[k][c] = mine[k][f]

\* a successful build over two workbooks that both contribute rows
C1_Witness ==
  /\ BuiltOk
  /\ \E i, j \in 1..Len(fact_tru_tac.rows) :
        fact_tru_tac.rows[i].source_file # fact_tru_tac.rows[j].source_file


\* the normalised candidate names of every logical field, in list order
CandidateLists ==
  { org_keys, amount_keys, table_keys, main_keys, sub_keys, row_keys, label_keys }

\* the candidates of a list that some normalised header equals
Matched(keys, cand_keys) ==
  {c \in 1..Len(cand_keys) : \E i \in 1..Len(keys) : keys[i] = cand_keys[c]}

FirstOf(keys, cand_keys, hits, p) ==
  /\ (p = 0) <=> (hits = {})
  /\ p # 0 => /\ p \in 1..Len(keys)
              /\ \E c \in hits : /\ keys[p] = cand_keys[c]
                                 /\ \A d \in hits : c <= d

FirstCandidateWins(keys, cand_keys) ==
  FirstOf(keys, cand_keys, Matched(keys, cand_keys), pick(keys, cand_keys))

\* the amounts of a workbook's rows in the fact table are the cells of column c
AmountsFrom(wb, c) ==
  \A r \in 1..Len(wb.sheets[2].rows) :
     \E i \in 1..Len(fact_tru_tac.rows) :
        /\ fact_tru_tac.rows[i].source_file = wb.name
        /\ fact_tru_tac.rows[i].amount = to_numeric(wb.sheets[2].rows[r][c])

\* column c carries the earliest amount candidate that any header of the
\* sheet matches (the rightmost such column when headers collide)
IsFirstAmountColumn(keys, hits, c) ==
  \E k \in hits :
     /\ keys[c] = amount_keys[k]
     /\ \A m \in hits : k <= m
     /\ \A d \in 1..Len(keys) : keys[d] = keys[c] => d <= c

AmountsFromFirstCandidate(wb, keys) ==
  \A c \in 1..Len(keys) :
     IsFirstAmountColumn(keys, Matched(keys, amount_keys), c) => AmountsFrom(wb, c)

\* C6: for every sheet and every logical field the resolved column is one
\* whose normalised header equals the earliest candidate of the field's list
\* that any header matches, whatever the column positions (none is resolved
\* exactly when no candidate matches); after a successful build_canonical the
\* amounts of the fact table are the cells of that column.
C6_FirstCandidateWins ==
  /\ \A wb \in raw_dir : \A s \in 1..Len(wb.sheets) : \A cand_keys \in CandidateLists :
        FirstCandidateWins(col_lookup(wb.sheets[s].columns), cand_keys)
  /\ BuiltOk =>
        \A wb \in raw_dir : AmountsFromFirstCandidate(wb, col_lookup(wb.sheets[2].columns))

\* a built fact table whose amount was read from a TOTAL column standing to
\* the right of an Amount column
C6_Witness ==
  /\ BuiltOk
  /\ \E wb \in raw_dir :
        /\ wb.sheets[2].columns[1] = << "A", "m", "o", "u", "n", "t" >>
        /\ wb.sheets[2].columns[9] = << "T", "O", "T", "A", "L" >>
        /\ \E i \in 1..Len(fact_tru_tac.rows) :
              /\ fact_tru_tac.rows[i].source_file = wb.name
              /\ fact_tru_tac.rows[i].amount = wb.sheets[2].rows[1][9]
              /\ fact_tru_tac.rows[i].amount # wb.sheets[2].rows[1][1]

\* the subcode dimension as the join reads it
DimRows == mappings.dim_tac_subcodes_by_year.rows

JoinKey(r) == << r.fy, DropNonAlnum(Lower(r.WorkSheetName)), r.SubCode >>

\* C4: the dimension never holds two rows with the same financial year,
\* worksheet key and subcode.
C4_OneLabelPerKey ==
  \A i, j \in 1..Len(DimRows) : JoinKey(DimRows[i]) = JoinKey(DimRows[j]) => i = j

\* the enrichment has just completed
EnrichedOk ==
  /\ last_run.script = "build_enriched_fact"
  /\ last_run.status = "ok"

EnrichedRows == DOMAIN fact_tru_tac_enriched.rows

\* a dimension row and a fact (or enriched) row agree on financial year,
\* subcode and normalised worksheet name
KeysAgree(f, d) ==
  /\ f.SubCode.k = "str" /\ f.WorkSheetName.k = "str"
  /\ f.fy = d.fy
  /\ f.SubCode.s = d.SubCode
  /\ DropNonAlnum(Lower(f.WorkSheetName.s)) = DropNonAlnum(Lower(d.WorkSheetName))

\* an enriched row carries the columns of a fact row
SameFact(e, f) ==
  \A col \in {"org_name_raw", "WorkSheetName", "TableID", "MainCode", "RowNumber",
              "SubCode", "amount", "fy", "sector", "source_file", "schema_version"} :
     e[col] = f[col]

\* an enriched row carries the label and source of a dimension row (an empty
\* label reads back as NULL)
LabelledBy(e, d) ==
  /\ e.subcode_label = (IF d.subcode_label = << >> THEN NaN ELSE Txt(d.subcode_label))
  /\ e.mapping_source_file = Txt(d.source_file)

\* C2: after build_enriched_fact every dimension row agreeing with a fact
\* row on financial year, subcode and normalised worksheet name supplies its
\* label to an enriched copy of that row, and every enriched row that carries
\* a mapping took it from such a dimension row.
C2_LabelFromMatchingRows ==
  EnrichedOk =>
    /\ \A i \in 1..Len(fact_tru_tac.rows) : \A j \in 1..Len(DimRows) :
          KeysAgree(fact_tru_tac.rows[i], DimRows[j]) =>
             \E e \in EnrichedRows :
                SameFact(e, fact_tru_tac.rows[i]) /\ LabelledBy(e, DimRows[j])
    /\ \A e \in EnrichedRows :
          e.mapping_source_file.k # "nan" =>
             \E j \in 1..Len(DimRows) : KeysAgree(e, DimRows[j]) /\ LabelledBy(e, DimRows[j])

\* an enriched row labelled from a sheet whose name is spelt differently,
\* while a row of another year holds the same subcode
C2_Witness ==
  /\ EnrichedOk
  /\ \E e \in EnrichedRows : \E j, k \in 1..Len(DimRows) :
        /\ e.subcode_label = Txt(DimRows[j].subcode_label)
        /\ KeysAgree(e, DimRows[j])
        /\ DimRows[j].WorkSheetName # e.WorkSheetName.s
        /\ DimRows[k].SubCode = e.SubCode.s
        /\ DimRows[k].fy # e.fy

\* C3: every fact row appears in the enriched table, and is_unmapped = 1
\* holds for exactly the rows that no dimension row matches on financial
\* year, worksheet key and subcode.
C3_UnmappedIffNoMatch ==
  EnrichedOk =>
    /\ \A i \in 1..Len(fact_tru_tac.rows) :
          \E e \in EnrichedRows : SameFact(e, fact_tru_tac.rows[i])
    /\ \A e \in EnrichedRows :
          (e.is_unmapped = 1) <=> ~ \E j \in 1..Len(DimRows) : KeysAgree(e, DimRows[j])

\* C5: once fact_tru_tac exists, a run of any script other than
\* build_canonical leaves the table exactly as it was.
C5_FactImmutable ==
  [][(fact_tru_tac.exists /\ last_run'.script # "build_canonical")
        => fact_tru_tac' = fact_tru_tac]_vars

\* the fact table exists and another script has completed after it was built
C5_Witness ==
  /\ fact_tru_tac.exists
  /\ fact_tru_tac.rows # << >>
  /\ fact_tru_tac_enriched.exists
  /\ last_run.script = "report_unmapped_subcodes"
  /\ last_run.status = "ok"

SeedRows == mappings.dim_provider_seed.rows

SeedOk ==
  /\ last_run.script = "make_provider_dim_seed"
  /\ last_run.status = "ok"

\* the fact rows of one (sector, organisation name) pair
PairRows(sector, org) ==
  {i \in 1..Len(fact_tru_tac.rows) :
      /\ fact_tru_tac.rows[i].sector = sector
      /\ fact_tru_tac.rows[i].org_name_raw = org}

RECURSIVE SumOfRows(_)
SumOfRows(rows) == IF rows = << >> THEN 0 ELSE Head(rows).rows + SumOfRows(Tail(rows))

\* C10: after make_provider_dim_seed the seed file has exactly one row per
\* (sector, organisation name) pair of the fact table, carrying the smallest
\* and the largest financial year of the pair's fact rows and their number;
\* the numbers add up to the row count of the fact table.
C10_SeedIsRollUp ==
  SeedOk =>
    /\ \A i \in 1..Len(fact_tru_tac.rows) :
          \E k \in 1..Len(SeedRows) :
             /\ SeedRows[k].sector = fact_tru_tac.rows[i].sector
             /\ SeedRows[k].org_name_raw = fact_tru_tac.rows[i].org_name_raw.s
             /\ \A m \in 1..Len(SeedRows) :
                   ( /\ SeedRows[m].sector = SeedRows[k].sector
                     /\ SeedRows[m].org_name_raw = SeedRows[k].org_name_raw ) => m = k
    /\ \A k \in 1..Len(SeedRows) :
          \E members \in {PairRows(SeedRows[k].sector, Txt(SeedRows[k].org_name_raw))} :
             /\ members # {}
             /\ SeedRows[k].rows = Cardinality(members)
             /\ \E i \in members : fact_tru_tac.rows[i].fy = SeedRows[k].first_fy_seen
             /\ \E i \in members : fact_tru_tac.rows[i].fy = SeedRows[k].last_fy_seen
             /\ \A i \in members :
                   /\ StrLeq(SeedRows[k].first_fy_seen, fact_tru_tac.rows[i].fy)
                   /\ StrLeq(fact_tru_tac.rows[i].fy, SeedRows[k].last_fy_seen)
             /\ StrLeq(SeedRows[k].first_fy_seen, SeedRows[k].last_fy_seen)
    /\ SumOfRows(SeedRows) = Len(fact_tru_tac.rows)

\* a seed of several organisations, one of them seen in two financial years
C10_Witness ==
  /\ SeedOk
  /\ Len(SeedRows) >= 2
  /\ \E k \in 1..Len(SeedRows) :
        /\ SeedRows[k].first_fy_seen # SeedRows[k].last_fy_seen
        /\ SeedRows[k].rows >= 2

\* no header matches any candidate of some list
MissingColumns(keys, lists) == \E cand_keys \in lists : Matched(keys, cand_keys) = {}

ColumnsNotDetected(sheets, si, lists) ==
  si = 0 \/ MissingColumns(col_lookup(sheets[si].columns), lists)

\* build_canonical finds no "All data" sheet in the workbook, or no column
\* for one of its fields
CanonicalDetectionFails(wb) ==
  ColumnsNotDetected(wb.sheets,
                     Least({i \in 1..Len(wb.sheets) : norm(wb.sheets[i].name) = norm(<< "A", "l", "l", " ", "d", "a", "t", "a" >>)}),
                     {<< stable_required_norm[k] >> : k \in 1..Len(stable_required_norm)}
                       \cup {org_keys, amount_keys})

\* build_dim_tac_lines_from_mapping finds no sheet named like a mapping
\* schedule, or no column for one of the four key fields
MappingDetectionFails(wb) ==
  ColumnsNotDetected(wb.sheets, find_mapping_sheet(wb.sheets),
                     {table_keys, main_keys, sub_keys, row_keys})

\* the header-row detection finds no row with enough subcodes below it
HeaderDetectionFails(sh) ==
  find_header_row_and_subcode_col(code_cells(sh.grid)).hdr_row = 0

\* the TAC sheets of the reference workbooks, as (workbook, sheet number)
TacSheets ==
  UNION {{<< wb, i >> : i \in {k \in 1..Len(wb.sheets) : is_tac_sheet(wb.sheets[k])}} :
            wb \in {w \in ref_dir : glob_xlsx(w.name)}}

FailedTacSheets == {ws \in TacSheets : HeaderDetectionFails(ws[1].sheets[ws[2]])}

RanScript(script) == last_run.script = script

CanonicalRaises ==
  (RanScript("build_canonical")
     /\ \E wb \in raw_dir : glob_TAC(wb.name) /\ CanonicalDetectionFails(wb))
  => last_run.status = "error"

LinesRaises ==
  (RanScript("build_dim_tac_lines_from_mapping")
     /\ \E wb \in raw_dir : glob_TAC_FTs(wb.name) /\ MappingDetectionFails(wb))
  => last_run.status = "error"

KnownBedFiles ==
  {w \in activity_dir : \E k \in 1..Len(bed_files) : bed_files[k].filename = w.name}

BedFy(w) == bed_files[CHOOSE k \in 1..Len(bed_files) : bed_files[k].filename = w.name].fy

\* the sheet 'NHS Trust by Sector' of a workbook, if it has one with the two
\* columns
BedSheets(w) ==
  {i \in 1..Len(w.sheets) :
      /\ w.sheets[i].name = s_NHS_Trust_by_Sector
      /\ \E c \in 1..Len(w.sheets[i].columns) : w.sheets[i].columns[c] = s_Org_Name
      /\ \E c \in 1..Len(w.sheets[i].columns) : w.sheets[i].columns[c] = s_Total}

\* reading the workbook raises an error
UnreadableBedFiles == {w \in KnownBedFiles : BedSheets(w) = {}}

\* the names, stripped, of the rows of a workbook that carry a number of beds
BedOrgs(w) ==
  UNION {{Strip(sh.rows[r][bed_column(sh.columns, s_Org_Name)].s) :
            r \in {q \in 1..Len(sh.rows) :
                     /\ sh.rows[q][bed_column(sh.columns, s_Org_Name)] # Txt(s_Org_Name)
                     /\ to_numeric(sh.rows[q][bed_column(sh.columns, s_Total)]).k = "num"}} :
         sh \in {w.sheets[i] : i \in BedSheets(w)}}

\* the fy values for which a readable workbook names a trust of the fact table
MatchedBedYears ==
  {BedFy(w) : w \in {x \in KnownBedFiles \ UnreadableBedFiles :
                        \E o \in BedOrgs(x) : \E i \in 1..Len(fact_tru_tac.rows) :
                           /\ fact_tru_tac.rows[i].org_name_raw.k = "str"
                           /\ Upper(fact_tru_tac.rows[i].org_name_raw.s) = Upper(o)}}

\* C8 as stated: an error raised while reading an input aborts the script;
\* a run that met a workbook it could not read ends in an error.
C8_InputErrorAborts ==
  /\ CanonicalRaises
  /\ (RanScript("process_historical_beds") /\ UnreadableBedFiles # {})
        => last_run.status = "error"

\* C8 amended: build_canonical ends in an error when it cannot read a
\* workbook; process_historical_beds passes over every bed workbook it cannot
\* read and completes exactly when the fact table exists and some readable
\* workbook has a row with a number of beds, and it then saves the matched
\* rows of exactly the readable workbooks.
C8_AbortsOrSkipsWorkbook ==
  /\ CanonicalRaises
  /\ RanScript("process_historical_beds") =>
        /\ (last_run.status = "ok") <=>
              /\ fact_tru_tac.exists
              /\ \E w \in KnownBedFiles \ UnreadableBedFiles : BedOrgs(w) # {}
        /\ last_run.status = "ok" =>
              /\ beds_historical_matched.exists
              /\ {r.fy : r \in DOMAIN beds_historical_matched.rows} = MatchedBedYears

\* the bed processor completed and saved rows although it could not read one
\* of the workbooks
C8_Witness ==
  /\ RanScript("process_historical_beds")
  /\ last_run.status = "ok"
  /\ UnreadableBedFiles # {}
  /\ DOMAIN beds_historical_matched.rows # {}

\* fact_tru_tac and the view dim_tac_subcodes_ws can be queried
DatabaseBuilt ==
  /\ fact_tru_tac.exists
  /\ views.dim_tac_subcodes_ws # "absent"
  /\ mappings.dim_tac_subcodes_by_year.exists

\* the bed processor run now ends well
BedsCanComplete ==
  /\ fact_tru_tac.exists
  /\ \E w \in KnownBedFiles \ UnreadableBedFiles : BedOrgs(w) # {}

ReviewFiles ==
  {"Data/analysis/code_discovery/top_50_opex_for_manual_review.csv",
   "Data/analysis/code_discovery/top_30_intangibles_for_manual_review.csv"}

\* C9 as stated: how a report ends does not depend on the reports run before
\* it; each ends as it does when run on its own, with none of their output.
C9_ReportsIndependent ==
  /\ RanScript("comprehensive_code_browser") =>
        (last_run.status = "ok") <=> DatabaseBuilt
  /\ RanScript("process_historical_beds") =>
        (last_run.status = "ok") <=> BedsCanComplete
  /\ RanScript("manual_code_identification_helper") =>
        last_run = Ran("manual_code_identification_helper",
                       manual_code_identification_helper({}).error)

\* C9 amended: comprehensive_code_browser and process_historical_beds end the
\* same way whatever ran before them; manual_code_identification_helper
\* completes exactly when the database is built and the directory
\* Data/analysis/code_discovery, which it does not make, is already there,
\* and when it fails it writes nothing.
C9_IndependentButForDirectory ==
  [][ /\ last_run'.script = "comprehensive_code_browser" =>
            /\ (last_run'.status = "ok") <=> DatabaseBuilt
            /\ code_discovery \in artefacts'
      /\ last_run'.script = "process_historical_beds" =>
            (last_run'.status = "ok") <=> BedsCanComplete
      /\ last_run'.script = "manual_code_identification_helper" =>
            /\ (last_run'.status = "ok") <=> (DatabaseBuilt /\ code_discovery \in artefacts)
            /\ last_run'.status = "ok" => ReviewFiles \subseteq artefacts'
            /\ last_run'.status = "error" => artefacts' = artefacts ]_vars

\* the helper completed after the browser had made the directory
C9_Witness ==
  /\ RanScript("manual_code_identification_helper")
  /\ last_run.status = "ok"
  /\ ReviewFiles \subseteq artefacts
  /\ "Data/analysis/code_discovery/consultancy_spending_by_year.csv" \in artefacts

\* mappings/dim_provider.csv holds the (sector, org_name_raw) pairs of the
\* seed, and the seed is that of the current fact table
ProviderSeededFromFact ==
  /\ fact_tru_tac.exists
  /\ mappings.dim_provider_seed.exists
  /\ mappings.dim_provider.exists
  /\ mappings.dim_provider_seed.rows =
        seed_rows(fact_tru_tac.rows, seed_groups(fact_tru_tac.rows))
  /\ Len(mappings.dim_provider.rows) = Len(mappings.dim_provider_seed.rows)
  /\ \A i \in 1..Len(mappings.dim_provider.rows) :
        /\ mappings.dim_provider.rows[i].sector = mappings.dim_provider_seed.rows[i].sector
        /\ mappings.dim_provider.rows[i].org_name_raw =
              mappings.dim_provider_seed.rows[i].org_name_raw
        /\ mappings.dim_provider.rows[i].provider_id # << >>

\* C11: with a provider dimension seeded from the fact table and its
\* org_name_raw left alone, the coverage query of provider_join_test reports
\* unmatched_rows = 0 for every fy and sector, and an enrichment run then
\* gives every row a provider_id.
C11_FullCoverage ==
  /\ (RanScript("provider_join_test") /\ last_run.status = "ok" /\ ProviderSeededFromFact)
        => \A g \in coverage(fact_tru_tac.rows, dim_provider(mappings.dim_provider.rows)) :
              g.unmatched_rows = 0
  /\ (RanScript("build_enriched_fact") /\ last_run.status = "ok" /\ ProviderSeededFromFact)
        => \A e \in DOMAIN fact_tru_tac_enriched.rows : e.provider_id.k # "nan"

\* what a cell of the amount column may become: the number it holds or
\* spells, otherwise null
IsNumberText(s) ==
  \/ (s # << >> /\ \A i \in 1..Len(s) : s[i] \in Digits)
  \/ (Len(s) > 1 /\ s[1] = "-" /\ \A i \in 2..Len(s) : s[i] \in Digits)

StoredAmountOf(cell, amount) ==
  /\ amount.k \in {"num", "nan"}
  /\ cell.k = "num" => amount = cell
  /\ cell.k = "nan" => amount.k = "nan"
  /\ (cell.k = "str" /\ ~IsNumberText(Strip(cell.s))) => amount.k = "nan"
  /\ (cell.k = "str" /\ IsNumberText(Strip(cell.s))) => amount.k = "num"

\* C12: every amount of the fact table is a number or null, never text; after
\* a successful build each row keeps the number of its amount cell, and a
\* cell that spells no number became null while its row was kept.
C12_AmountNumberOrNull ==
  /\ \A i \in 1..Len(fact_tru_tac.rows) : fact_tru_tac.rows[i].amount.k \in {"num", "nan"}
  /\ BuiltOk =>
        \A wb \in {w \in raw_dir : HasPrefix(w.name, s_TAC_)} :
           LET mine == SelectSeq(fact_tru_tac.rows, LAMBDA r : r.source_file = wb.name)
               data == AllDataRows(wb)
               col  == pick(col_lookup(wb.sheets[2].columns), amount_keys)
           IN  /\ Len(mine) = Len(data)
               /\ \A k \in 1..Len(mine) : StoredAmountOf(data[k][col], mine[k].amount)

\* a built fact table with a row whose amount cell held text and is now null
C12_Witness ==
  /\ BuiltOk
  /\ \E wb \in raw_dir :
        \E k \in 1..Len(AllDataRows(wb)) :
           /\ AllDataRows(wb)[k][pick(col_lookup(wb.sheets[2].columns), amount_keys)].k = "str"
           /\ \E i \in 1..Len(fact_tru_tac.rows) :
                 /\ fact_tru_tac.rows[i].source_file = wb.name
                 /\ fact_tru_tac.rows[i].org_name_raw = AllDataRows(wb)[k][1]
                 /\ fact_tru_tac.rows[i].amount.k = "nan"

\* a sheet name that reads 'alldata' once lower-cased and stripped of every
\* character that is not a letter or a digit
ReadsAllData(name) ==
  SelectSeq(Lower(name), LAMBDA c : c \in LowerLetters \cup Digits) = << "a", "l", "l", "d", "a", "t", "a" >>

\* the positions of the qualifying sheets of a workbook
QualifyingSheets(wb) == {i \in 1..Len(wb.sheets) : ReadsAllData(wb.sheets[i].name)}

GlobbedWorkbooks == {wb \in raw_dir : HasPrefix(wb.name, s_TAC_)}

\* C13: load_all_data reads the first sheet in workbook order whose name,
\* lower-cased and without non-alphanumerics, equals 'alldata' ('All data',
\* 'ALL DATA' and 'All_Data' qualify); a workbook without such a sheet makes
\* the build end in an error and nothing is loaded.
C13_FirstAllDataSheet ==
  /\ \A n \in {AllData, << "A", "L", "L", " ", "D", "A", "T", "A" >>, << "A", "l", "l", "_", "D", "a", "t", "a" >>} : ReadsAllData(n)
  /\ RanScript("build_canonical") =>
       /\ (\E wb \in GlobbedWorkbooks : QualifyingSheets(wb) = {})
             => (last_run.status = "error" /\ ~fact_tru_tac.exists)
       /\ last_run.error = "no_all_data_sheet"
             => \E wb \in GlobbedWorkbooks : QualifyingSheets(wb) = {}
       /\ last_run.status = "ok" =>
             \A wb \in GlobbedWorkbooks :
                LET first == CHOOSE i \in QualifyingSheets(wb) :
                               \A j \in QualifyingSheets(wb) : i <= j
                    mine  == SelectSeq(fact_tru_tac.rows, LAMBDA r : r.source_file = wb.name)
                    data  == wb.sheets[first].rows
                IN  /\ Len(mine) = Len(data)
                    /\ \A k \in 1..Len(mine) :
                         /\ mine[k].org_name_raw = data[k][1]
                         /\ mine[k].SubCode = data[k][6]

\* a successful build over a workbook with two qualifying sheets of different
\* rows, the second spelled 'All data' exactly
C13_Witness ==
  /\ BuiltOk
  /\ \E wb \in GlobbedWorkbooks :
        /\ Cardinality(QualifyingSheets(wb)) = 2
        /\ wb.sheets[2].name # AllData
        /\ wb.sheets[3].name = AllData

\* a run that stopped at a workbook without a qualifying sheet
NoSheetRaised ==
  RanScript("build_canonical") /\ last_run.error = "no_all_data_sheet"

\* TAC_<kind>_YYYY-YY.xlsx
NameOfForm(name, kind) ==
  /\ Len(name) = Len(kind) + 17
  /\ LET year == SubSeq(name, Len(kind) + 6, Len(kind) + 12)
     IN  /\ name = << "T", "A", "C", "_" >> \o kind \o << "_" >> \o year \o << ".", "x", "l", "s", "x" >>
         /\ \A i \in {1, 2, 3, 4, 6, 7} : year[i] \in Digits
         /\ year[5] = "-"

WellNamed(name) == NameOfForm(name, << "T", "r", "u", "s", "t", "s" >>) \/ NameOfForm(name, << "F", "T", "s" >>)

\* the files of Data/raw the glob TAC_*.xlsx matches
TacFiles ==
  {wb \in raw_dir : /\ Len(wb.name) >= 9
                    /\ SubSeq(wb.name, 1, 4) = << "T", "A", "C", "_" >>
                    /\ SubSeq(wb.name, Len(wb.name) - 4, Len(wb.name)) = << ".", "x", "l", "s", "x" >>}

\* C14: parse_metadata accepts exactly the names TAC_Trusts_YYYY-YY.xlsx and
\* TAC_FTs_YYYY-YY.xlsx, giving sector 'Trust' or 'FT' and the year YYYY-YY;
\* any other name the glob matches makes the build end in an error with
\* nothing written, and a successful build stamps every row accordingly.
C14_FileNamePattern ==
  /\ \A wb \in raw_dir :
        LET m == parse_metadata(wb.name)
        IN  /\ m.ok <=> WellNamed(wb.name)
            /\ NameOfForm(wb.name, << "T", "r", "u", "s", "t", "s" >>) =>
                  (m.sector = << "T", "r", "u", "s", "t" >> /\ m.fy = SubSeq(wb.name, 12, 18))
            /\ NameOfForm(wb.name, << "F", "T", "s" >>) =>
                  (m.sector = << "F", "T" >> /\ m.fy = SubSeq(wb.name, 9, 15))
  /\ RanScript("build_canonical") =>
        /\ (\E wb \in TacFiles : ~WellNamed(wb.name))
              => (last_run.status = "error" /\ ~fact_tru_tac.exists /\ ~parquet.exists)
        /\ last_run.error = "unexpected_filename"
              => \E wb \in TacFiles : ~WellNamed(wb.name)
        /\ last_run.status = "ok" =>
              \A i \in 1..Len(fact_tru_tac.rows) :
                 LET r == fact_tru_tac.rows[i]
                 IN  /\ \E wb \in TacFiles : wb.name = r.source_file
                     /\ NameOfForm(r.source_file, << "T", "r", "u", "s", "t", "s" >>) =>
                           (r.sector = << "T", "r", "u", "s", "t" >> /\ r.fy = SubSeq(r.source_file, 12, 18))
                     /\ NameOfForm(r.source_file, << "F", "T", "s" >>) =>
                           (r.sector = << "F", "T" >> /\ r.fy = SubSeq(r.source_file, 9, 15))

\* a build aborted by an oddly named file that sorts after a well-named one
C14_Witness ==
  /\ RanScript("build_canonical")
  /\ last_run.error = "unexpected_filename"
  /\ \E wb \in TacFiles : WellNamed(wb.name)

\* a successful build next to a file the glob does not match
BuiltBesideOtherFile ==
  BuiltOk /\ fact_tru_tac.rows # << >> /\ raw_dir \ TacFiles # {}

\* the letters and digits of a row's cells, lower-cased, in cell order
RECURSIVE RowText(_)
RowText(row) ==
  IF row = << >> THEN << >>
  ELSE (IF Head(row).k = "str"
          THEN SelectSeq(Lower(Head(row).s), LAMBDA c : c \in LowerLetters \cup Digits)
        ELSE IF Head(row).k = "num" THEN NatToStr(Head(row).n)
        ELSE << >>)
       \o RowText(Tail(row))

KeywordSet ==
  { << "t", "a", "b", "l", "e" >>, << "t", "a", "b", "l", "e", "i", "d" >>, << "m", "a", "i", "n" >>, << "m", "a", "i", "n", "c", "o", "d", "e" >>, << "s", "u", "b" >>, << "s", "u", "b", "c", "o", "d", "e" >>, << "r", "o", "w" >>, << "r", "o", "w", "n", "u", "m", "b", "e", "r" >>,
    << "d", "e", "s", "c", "r", "i", "p", "t", "i", "o", "n" >> }

KeywordCount(row) == Cardinality({k \in KeywordSet : Contains(RowText(row), k)})

\* the rows (counted from 1) of a sheet's first 30 that hold three keywords
HeaderLike(sh) ==
  {r \in 1..Len(sh.grid) : r <= 30 /\ KeywordCount(sh.grid[r]) >= 3}

\* the lines the scan printed for a sheet of a workbook
ScanLines(wb, sh) ==
  {l \in UNION { {scan_report[i].likely[j] : j \in 1..Len(scan_report[i].likely)} :
                   i \in {i \in 1..Len(scan_report) : scan_report[i].file = wb.name} } :
     l.sheet = sh.name}

\* C15: the header scan looks at the first 30 rows of a sheet only, scores a
\* row by the number of keywords its normalised text contains, and reports
\* for each sheet the highest-scoring row among those scoring at least 3,
\* the earliest on ties, and nothing when no row scores 3.
C15_HeaderScan ==
  RanScript("debug_illustrative_scan") =>
    \A wb \in ref_dir : \A s \in 1..Len(wb.sheets) :
       LET sh    == wb.sheets[s]
           lines == ScanLines(wb, sh)
       IN  IF HeaderLike(sh) = {} THEN lines = {}
           ELSE /\ Cardinality(lines) = 1
                /\ \A l \in lines :
                     /\ l.row + 1 \in HeaderLike(sh)
                     /\ l.score = KeywordCount(sh.grid[l.row + 1])
                     /\ \A q \in HeaderLike(sh) :
                          \/ KeywordCount(sh.grid[q]) < l.score
                          \/ KeywordCount(sh.grid[q]) = l.score /\ l.row + 1 <= q

\* a scan of a sheet whose best row lies beyond the window, below a row of
\* the window that is reported; and of a sheet with two rows of equal score
C15_Witness ==
  /\ RanScript("debug_illustrative_scan")
  /\ \E wb \in ref_dir :
        /\ Len(wb.sheets[1].grid) = 31
        /\ KeywordCount(wb.sheets[1].grid[30]) = 3
        /\ KeywordCount(wb.sheets[1].grid[31]) = 4
        /\ ScanLines(wb, wb.sheets[1]) # {}
  /\ \E wb \in ref_dir :
        /\ Len(wb.sheets[1].grid) = 2
        /\ KeywordCount(wb.sheets[1].grid[1]) = 3
        /\ KeywordCount(wb.sheets[1].grid[2]) = 3
        /\ wb.sheets[1].grid[1] # wb.sheets[1].grid[2]

\* a path that starts at a root or at a drive letter
IsAbsolutePath(p) ==
  \/ Len(p) >= 1 /\ SubSeq(p, 1, 1) = "/"
  \/ Len(p) >= 3 /\ SubSeq(p, 2, 3) = ":\\"

\* the paths spelled out in full in the text of the scripts
FixedOutputPaths ==
  {"Data/analysis/consultancy_detailed",
   "Data/analysis/consultancy_detailed/consultancy_by_org_year.csv",
   "Data/analysis/consultancy_detailed/operating_income_by_org_year.csv",
   "Data/analysis/consultancy_detailed/consultancy_with_turnover_pct.csv",
   "Data/analysis/consultancy_detailed/top_consultancy_spenders_total.csv",
   "Data/analysis/consultancy_detailed/sector_comparison.csv",
   "Data/analysis/consultancy_detailed/consultancy_comprehensive_analysis.png",
   "Data/samples",
   "Data/samples/summary_statistics.csv"}

RanOk(script) == last_run.script = script /\ last_run.status = "ok"

PctFile(year) == "Data/analysis/consultancy_detailed/top_consultancy_pct_" \o year \o ".csv"

SampleFiles(table) ==
  {"Data/samples/" \o table \o "_sample.parquet", "Data/samples/" \o table \o "_sample.csv"}

\* the label the dimension file gives a subcode contains a word
LabelledWith(cell, word) ==
  \E j \in 1..Len(DimRows) :
     /\ Txt(DimRows[j].SubCode) = cell
     /\ Contains(Lower(DimRows[j].subcode_label), word)

\* the years in which some organisation has both consultancy spend and
\* operating income in the fact table
YearsWithBoth ==
  {TextOf(fact_tru_tac.rows[i].fy) : i \in {i \in 1..Len(fact_tru_tac.rows) :
     /\ LabelledWith(fact_tru_tac.rows[i].SubCode, << "c", "o", "n", "s", "u", "l", "t" >>)
     /\ \E k \in 1..Len(fact_tru_tac.rows) :
          /\ fact_tru_tac.rows[k].org_name_raw = fact_tru_tac.rows[i].org_name_raw
          /\ fact_tru_tac.rows[k].sector = fact_tru_tac.rows[i].sector
          /\ fact_tru_tac.rows[k].fy = fact_tru_tac.rows[i].fy
          /\ fact_tru_tac.rows[k].WorkSheetName = Txt(<< "T", "A", "C", "0", "2", " ", "S", "o", "C", "I" >>)
          /\ LabelledWith(fact_tru_tac.rows[k].SubCode, << "o", "p", "e", "r", "a", "t", "i", "n", "g", " ", "i", "n", "c", "o", "m", "e" >>)}}

KnownYears == {"2019-20", "2020-21"}

LatestYearWithBoth ==
  IF YearsWithBoth = {} THEN "nan"
  ELSE IF "2020-21" \in YearsWithBoth THEN "2020-21" ELSE "2019-20"

HistogramRaised ==
  last_run.script = "consultancy_comprehensive_analysis"
    /\ last_run.error = "value_error_histogram_range"

NamedAfterNoYear == RanOk("consultancy_comprehensive_analysis") /\ PctFile("nan") \in artefacts

\* the subcodes the analysis takes for PFI: those some label of the
\* dimension file marks as PFI, or else those a label marks as a lease
PfiMarked ==
  {DimRows[j].SubCode : j \in {j \in 1..Len(DimRows) :
      \/ Contains(Lower(DimRows[j].subcode_label), << "p", "f", "i" >>)
      \/ Contains(Lower(DimRows[j].subcode_label), << "p", "r", "i", "v", "a", "t", "e", " ", "f", "i", "n", "a", "n", "c", "e" >>)
      \/ Contains(Lower(DimRows[j].subcode_label), << "f", "i", "n", "a", "n", "c", "e", " ", "l", "e", "a", "s", "e" >>)
      \/ Contains(Lower(DimRows[j].subcode_label), << "s", "e", "r", "v", "i", "c", "e", " ", "c", "o", "n", "c", "e", "s", "s", "i", "o", "n" >>)}}

LeaseMarked ==
  {DimRows[j].SubCode : j \in {j \in 1..Len(DimRows) :
      \/ Contains(Lower(DimRows[j].subcode_label), << "l", "e", "a", "s", "e" >>)
      \/ Contains(Lower(DimRows[j].subcode_label), << "f", "i", "n", "a", "n", "c", "e", " ", "c", "o", "s", "t" >>)
      \/ Contains(Lower(DimRows[j].subcode_label), << "c", "a", "p", "i", "t", "a", "l", " ", "c", "h", "a", "r", "g", "e" >>)}}

PfiSubcodes == IF PfiMarked # {} THEN PfiMarked ELSE LeaseMarked

\* the fact rows of an organisation and year on a PFI subcode
PfiFactRows(org, sector, fy) ==
  {i \in 1..Len(fact_tru_tac.rows) :
     /\ fact_tru_tac.rows[i].org_name_raw = org
     /\ fact_tru_tac.rows[i].sector = sector
     /\ fact_tru_tac.rows[i].fy = fy
     /\ fact_tru_tac.rows[i].SubCode.k = "str"
     /\ fact_tru_tac.rows[i].SubCode.s \in PfiSubcodes
     /\ fact_tru_tac.rows[i].amount.k = "num"}

\* C17: total_pfi of an organisation and year is the sum of the amounts of
\* its fact rows on the PFI subcodes, each fact row counted once, however
\* many years, worksheets or labels the dimension has for the subcode.
C17_TotalCountsEachRowOnce ==
  RanOk("analyze_pfi_comprehensive") =>
    \A w \in pfi_wide :
       w.total_pfi = SumOf([i \in 1..Len(fact_tru_tac.rows) |-> fact_tru_tac.rows[i].amount.n],
                           PfiFactRows(w.org_name_raw, w.sector, w.fy))

\* the dimension has every PFI subcode in one row only
OneRowPerPfiSubcode ==
  \A i, j \in 1..Len(DimRows) :
     (DimRows[i].SubCode = DimRows[j].SubCode /\ DimRows[i].SubCode \in PfiSubcodes) => i = j

\* with one dimension row per subcode the total is the plain sum
TotalIsSumOverSingleRows ==
  (RanOk("analyze_pfi_comprehensive") /\ OneRowPerPfiSubcode) =>
    \A w \in pfi_wide :
       w.total_pfi = SumOf([i \in 1..Len(fact_tru_tac.rows) |-> fact_tru_tac.rows[i].amount.n],
                           PfiFactRows(w.org_name_raw, w.sector, w.fy))

SomeTotal == RanOk("analyze_pfi_comprehensive") /\ OneRowPerPfiSubcode /\ pfi_wide # {}

\* the fact rows of a financial year and sector
FactGroup(fy, sector) ==
  {i \in 1..Len(fact_tru_tac.rows) :
     fact_tru_tac.rows[i].fy = fy /\ fact_tru_tac.rows[i].sector = sector}

FactAbsTotal(fy, sector) ==
  SumOf([i \in 1..Len(fact_tru_tac.rows) |-> ABS(fact_tru_tac.rows[i].amount.n)],
        {i \in FactGroup(fy, sector) : fact_tru_tac.rows[i].amount.k = "num"})

QcGroups ==
  {<< e.fy, e.sector >> : e \in DOMAIN fact_tru_tac_enriched.rows}
    \cup {<< fact_tru_tac.rows[i].fy, fact_tru_tac.rows[i].sector >> :
             i \in 1..Len(fact_tru_tac.rows)}

\* C18: after build_enriched_fact the enriched table has one row per fact
\* row: for every financial year and sector total_rows of the QC summary is
\* the number of fact rows and abs_total is the sum of their absolute amounts.
C18_OneEnrichedRowPerFactRow ==
  EnrichedOk =>
    \A g \in QcGroups :
       /\ total_rows(g[1], g[2]) = Cardinality(FactGroup(g[1], g[2]))
       /\ abs_total(g[1], g[2]) = FactAbsTotal(g[1], g[2])

\* no two rows of either dimension file share the key of their join
OneRowPerJoinKey ==
  /\ C4_OneLabelPerKey
  /\ \A i, j \in 1..Len(mappings.dim_provider.rows) :
        (/\ mappings.dim_provider.rows[i].sector = mappings.dim_provider.rows[j].sector
         /\ mappings.dim_provider.rows[i].org_name_raw = mappings.dim_provider.rows[j].org_name_raw)
          => i = j

\* with one row per join key in both dimensions the counts and totals agree
OneRowPerFactRowUnderUniqueKeys ==
  (EnrichedOk /\ OneRowPerJoinKey) =>
    \A g \in QcGroups :
       /\ total_rows(g[1], g[2]) = Cardinality(FactGroup(g[1], g[2]))
       /\ abs_total(g[1], g[2]) = FactAbsTotal(g[1], g[2])

EnrichedSomeRows == EnrichedOk /\ OneRowPerJoinKey /\ Len(fact_tru_tac.rows) > 1

\* report_unmapped_subcodes has just read the enriched table
ReportedOk == RanOk("report_unmapped_subcodes")

\* the enrichment of the tables and mapping files as they are now
EnrichedNow ==
  BagOf(enriched_rows(fact_tru_tac.rows,
                      dim_provider(mappings.dim_provider.rows),
                      dim_tac_subcodes_ws(mappings.dim_tac_subcodes_by_year.rows)))

\* C19: whatever builds ran before it, the table report_unmapped_subcodes
\* reads is the enrichment of the fact table and the mapping files as they
\* are now, never that of an earlier build.
C19_EnrichedIsCurrent ==
  ReportedOk => fact_tru_tac_enriched.rows = EnrichedNow

\* the report read a table that is up to date
ReportedCurrent ==
  /\ ReportedOk
  /\ fact_tru_tac_enriched.rows = EnrichedNow
  /\ Len(fact_tru_tac.rows) > 0

\* the report read the rows of an earlier build: the table lacks accounts
\* the fact table holds by now
ReportedEarlierRows ==
  /\ ReportedOk
  /\ \E i \in 1..Len(fact_tru_tac.rows) :
        \A e \in DOMAIN fact_tru_tac_enriched.rows : ~SameFact(e, fact_tru_tac.rows[i])

\* the report read a label the dimension file no longer holds
ReportedEarlierLabel ==
  /\ ReportedOk
  /\ \E e \in DOMAIN fact_tru_tac_enriched.rows :
        /\ e.subcode_label.k = "str"
        /\ \A j \in 1..Len(DimRows) : DimRows[j].subcode_label # e.subcode_label.s

\* the view is defined and the file it reads is there
ViewReadable == view_error = ""

\* C20: once the view dim_tac_subcodes_ws is defined, by build_enriched_fact
\* or by check_subcode_mapping_join_ws_only, a script that queries it finds
\* every column it names, whichever of the two defined the view last.
C20_ViewHasColumnsQueried ==
  (ViewReadable /\ last_run.script \in {"discover_pfi_codes", "analyze_pfi_comprehensive"}) =>
     last_run.error # "binder_error_WorkSheetName"

\* analyze_pfi_comprehensive names columns both definitions have
PfiAnalysisFindsColumns ==
  RanScript("analyze_pfi_comprehensive") => last_run.error # "binder_error_WorkSheetName"

\* discover_pfi_codes completes on the view of check_subcode_mapping_join_ws_only
DiscoveredOnWsOnlyView ==
  /\ RanOk("discover_pfi_codes")
  /\ views.dim_tac_subcodes_ws = "worksheetname_ws_key_source_file"
  /\ fact_tru_tac.exists
  /\ fact_tru_tac_enriched.exists

\* and fails on the same files once build_enriched_fact has run again
DiscoverFailedOnEnrichedView ==
  /\ RanScript("discover_pfi_codes")
  /\ last_run.error = "binder_error_WorkSheetName"
  /\ views.dim_tac_subcodes_ws = "ws_key_mapping_source_file"

\* a workbook build_canonical rejects: its name is not of the expected form,
\* it has no 'All data' sheet, or a required column is missing
Rejected(wb) ==
  \/ ~WellNamed(wb.name)
  \/ QualifyingSheets(wb) = {}
  \/ CanonicalDetectionFails(wb)

\* C21: a run of build_canonical over a Data/raw that holds a rejected
\* workbook ends in an error and leaves the parquet file and the table
\* fact_tru_tac as they were, absent or as an earlier run built them.
C21_NothingWrittenOnRejection ==
  [][(last_run'.script = "build_canonical" /\ \E wb \in TacFiles : Rejected(wb))
        => (last_run'.status = "error" /\ UNCHANGED << parquet, fact_tru_tac >>)]_vars

\* a build rejected a workbook after it had parsed another one, and the
\* store of an earlier build is still there
C21_Witness ==
  /\ RanScript("build_canonical")
  /\ last_run.status = "error"
  /\ fact_tru_tac.exists /\ parquet.exists /\ fact_tru_tac.rows # << >>
  /\ \E bad \in TacFiles : \E good \in TacFiles :
        /\ Rejected(bad) /\ ~Rejected(good)
        /\ StrLeq(good.name, bad.name) /\ good.name # bad.name
        /\ \A i \in 1..Len(fact_tru_tac.rows) : fact_tru_tac.rows[i].source_file # good.name

\* the scripts of the model that connect with read_only=True
ReadOnlyScripts ==
  {"outlier_analysis", "analyze_pfi_comprehensive", "discover_pfi_codes", "quick_db_info",
   "comprehensive_code_browser", "manual_code_identification_helper",
   "consultancy_comprehensive_analysis", "export_sample_data", "process_historical_beds"}

\* the scripts that create or replace a table or a view
DatabaseWriters ==
  {"build_canonical", "build_enriched_fact", "check_subcode_mapping_join",
   "check_subcode_mapping_join_ws_only", "diagnose_mapping_join_keys", "provider_join_test"}

\* the tables of the database with their rows, the views with their definitions
database == << fact_tru_tac, fact_tru_tac_enriched, views >>

\* C22: a run of a script that connects read-only leaves every table and
\* view of the database as it was, and whenever a table or a view changes,
\* the step is a run of build_canonical, build_enriched_fact, one of the
\* mapping-join checks or provider_join_test.
C22_ReadersLeaveDatabase ==
  [][/\ last_run'.script \in ReadOnlyScripts => database' = database
     /\ database' # database => last_run'.script \in DatabaseWriters]_vars

\* read-only scripts have run, one after the other, on a database that holds
\* both tables and all three views
C22_Witness ==
  /\ RanOk("analyze_pfi_comprehensive")
  /\ pfi_wide # {}
  /\ outlier_analysis_dir \in artefacts
  /\ fact_tru_tac.exists /\ fact_tru_tac_enriched.exists
  /\ \A v \in DOMAIN views : views[v] # "absent"

\* the columns the two checks join the dimension on
JoinKeyColumns == {"fy", "WorkSheetName", "TableID", "SubCode"}

JoinCheckRan ==
  RanScript("check_subcode_mapping_join") \/ RanScript("diagnose_mapping_join_keys")

\* C23: the dimension file has every column the two checks join on, and a
\* check run when the dimension file and the fact table exist completes.
C23_JoinChecksComplete ==
  /\ mappings.dim_tac_subcodes_by_year.exists =>
        \A i \in 1..Len(DimRows) : JoinKeyColumns \subseteq DOMAIN DimRows[i]
  /\ (JoinCheckRan /\ mappings.dim_tac_subcodes_by_year.exists /\ fact_tru_tac.exists)
        => last_run.status = "ok"

\* a check ended in an error on a built dimension and a built fact table
JoinCheckFailedOnBuiltStore ==
  /\ JoinCheckRan
  /\ last_run.error = "binder_error_TableID"
  /\ Len(DimRows) > 0 /\ fact_tru_tac.exists /\ Len(fact_tru_tac.rows) > 0

\* the file has exactly the columns of the builder's records
DimFileColumns ==
  \A i \in 1..Len(DimRows) : DOMAIN DimRows[i] = subcode_record_columns

ReportFile == "outputs/top_unmapped_subcodes_by_abs_amount.csv"

ReportRows == top_unmapped_csv.rows

\* the enriched rows a line of the report stands for
RowsOfLine(g) ==
  {e \in DOMAIN fact_tru_tac_enriched.rows :
     /\ e.fy = g.fy /\ e.sector = g.sector /\ e.WorkSheetName = g.WorkSheetName
     /\ e.TableID = g.TableID /\ e.SubCode = g.SubCode
     /\ e.is_unmapped = 1}

ReportedYears ==
  {<< "2", "0", "1", "9", "-", "2", "0" >>, << "2", "0", "2", "0", "-", "2", "1" >>,
   << "2", "0", "2", "1", "-", "2", "2" >>, << "2", "0", "2", "2", "-", "2", "3" >>,
   << "2", "0", "2", "3", "-", "2", "4" >>}

ReportFailedWithoutTable ==
  /\ RanScript("report_unmapped_subcodes")
  /\ last_run.status = "error"
  /\ fact_tru_tac.exists
  /\ "outputs" \in artefacts

\* a report with a line that has no amount
ReportedLineWithoutAmount ==
  /\ RanOk("report_unmapped_subcodes")
  /\ \E i \in 1..Len(ReportRows) : ReportRows[i].abs_amount.k # "num"
  /\ Len(ReportRows) >= 2

\* a report with two lines of the same amount, and a line of two rows
ReportedTie ==
  /\ RanOk("report_unmapped_subcodes")
  /\ \E i, j \in 1..Len(ReportRows) :
        i # j /\ ReportRows[i].abs_amount = ReportRows[j].abs_amount

\* build_dim_tac_lines_from_mapping has just written mappings/dim_tac_lines.csv
LinesBuilt == RanOk("build_dim_tac_lines_from_mapping")

\* the lines with a numeric RowNumber in the mapping sheets of the TAC_FTs
\* workbooks of Data/raw
LinesRead ==
  concat(mapping_frames(sorted({wb \in raw_dir : glob_TAC_FTs(wb.name)})))

DimLines == mappings.dim_tac_lines.rows

\* the rows of dim_tac_lines.csv for the key of a line
RowsOfKey(line) == {i \in 1..Len(DimLines) : SameLine(DimLines[i], line)}

\* the row comes from a workbook with the latest financial year among the
\* workbooks holding its key
FromLatestYear(row) ==
  /\ \E j \in 1..Len(LinesRead) :
        /\ SameLine(LinesRead[j], row)
        /\ LinesRead[j].source_file = row.source_file
        /\ LinesRead[j].line_label = row.line_label
  /\ \A j \in 1..Len(LinesRead) :
        SameLine(LinesRead[j], row)
          => fy_sort_key(LinesRead[j].fy_source) <= fy_sort_key(row.fy_source)

\* every key cell of the line is filled
CompleteKey(line) == \A g \in 1..4 : line[LineKey[g]].k # "nan"

\* C25: dim_tac_lines.csv holds exactly one row for every line key that
\* occurs with a numeric RowNumber in the mapping sheet of a TAC_FTs
\* workbook, and that row comes from the workbook with the latest financial
\* year among those holding the key.
C25_OneRowPerLineKey ==
  LinesBuilt =>
    /\ \A j \in 1..Len(LinesRead) : Cardinality(RowsOfKey(LinesRead[j])) = 1
    /\ \A i \in 1..Len(DimLines) : FromLatestYear(DimLines[i])

\* the same for the keys without an empty cell: one row each, from the
\* latest year, and no row of the file has another key
OneRowPerCompleteLineKey ==
  LinesBuilt =>
    /\ \A j \in 1..Len(LinesRead) :
          Cardinality(RowsOfKey(LinesRead[j])) =
            (IF CompleteKey(LinesRead[j]) THEN 1 ELSE 0)
    /\ \A i \in 1..Len(DimLines) : FromLatestYear(DimLines[i])

\* a line of two years was written from the later year
LatestYearKept ==
  /\ LinesBuilt
  /\ \E i \in 1..Len(DimLines) : \E j \in 1..Len(LinesRead) :
        /\ SameLine(LinesRead[j], DimLines[i])
        /\ fy_sort_key(LinesRead[j].fy_source) < fy_sort_key(DimLines[i].fy_source)
        /\ LinesRead[j].line_label # DimLines[i].line_label

\* a line read with an empty SubCode is not in the file
LineWithoutSubCodeLost ==
  /\ LinesBuilt
  /\ \E j \in 1..Len(LinesRead) :
        /\ LinesRead[j].SubCode.k = "nan"
        /\ RowsOfKey(LinesRead[j]) = {}

\* the builder stopped on a TableID column of numbers and text
LinesNotOrdered ==
  last_run = Ran("build_dim_tac_lines_from_mapping", "type_error")

\* the rows of beds_historical_matched.csv, and how often each occurs
MatchedRows == DOMAIN beds_historical_matched.rows

\* the bed records read from the workbooks of Data/activity
BedRecords == concat_beds(all_beds(activity_dir, Len(bed_files)))

\* the bed records of a year under one spelling (spaces around it aside)
RecordsOf(name, fy) ==
  {i \in 1..Len(BedRecords) :
     Strip(BedRecords[i].org_name_activity.s) = name /\ BedRecords[i].fy = fy}

\* the row holds the mean of the bed records of one spelling and year
IsMeanOfRecords(row, name) ==
  /\ RecordsOf(name, row.fy) # {}
  /\ row.beds = mean_of(SumOf([i \in 1..Len(BedRecords) |-> BedRecords[i].beds],
                              RecordsOf(name, row.fy)),
                        Cardinality(RecordsOf(name, row.fy)))

\* C26: beds_historical_matched.csv holds at most one row per organisation
\* and financial year: the file repeats no row, and no two of its rows are
\* for the same year and for names that are equal when case is ignored.
C26_OneRowPerOrgYear ==
  beds_historical_matched.exists =>
    /\ \A r \in MatchedRows : beds_historical_matched.rows[r] = 1
    /\ \A r, s \in MatchedRows :
          (Upper(r.org_name_raw) = Upper(s.org_name_raw) /\ r.fy = s.fy) => r = s

\* every row of the file carries a name as the fact table spells it and the
\* mean of the bed records of one spelling of that name in its year
RowsAreMeansUnderTacNames ==
  beds_historical_matched.exists =>
    \A r \in MatchedRows :
       /\ Txt(r.org_name_raw) \in tac_orgs(fact_tru_tac.rows)
       /\ \E i \in 1..Len(BedRecords) :
             /\ Upper(Strip(BedRecords[i].org_name_activity.s)) = Upper(r.org_name_raw)
             /\ IsMeanOfRecords(r, Strip(BedRecords[i].org_name_activity.s))

\* bed records of one trust and year were averaged into one row
BedsAveraged ==
  /\ RanOk("process_historical_beds")
  /\ \E r \in MatchedRows : \E i \in 1..Len(BedRecords) :
        /\ IsMeanOfRecords(r, Strip(BedRecords[i].org_name_activity.s))
        /\ Cardinality(RecordsOf(Strip(BedRecords[i].org_name_activity.s), r.fy)) > 1

\* a trust entered in two spellings has two rows for one year under the one
\* name of the fact table
TwoRowsUnderOneName ==
  /\ RanOk("process_historical_beds")
  /\ \E r, s \in MatchedRows :
        r.org_name_raw = s.org_name_raw /\ r.fy = s.fy /\ r.beds # s.beds

\* a bed record matched two spellings of one trust in the fact table
OneRecordTwoNames ==
  /\ RanOk("process_historical_beds")
  /\ \E r, s \in MatchedRows :
        /\ r.org_name_raw # s.org_name_raw
        /\ Upper(r.org_name_raw) = Upper(s.org_name_raw)
        /\ r.fy = s.fy /\ r.beds = s.beds
====
